---------------------------- MODULE Spec2Model ----------------------------
(***************************************************************************)
(* Real-time table synchronisation of DataSync-Backend/server/storage.ts:  *)
(* the WebSocket connection registry (isAlive, subscribedTables), the      *)
(* subscription router (tableSubscriptions), broadcastTableUpdate, and the *)
(* HTTP request handlers that persist a change and then broadcast.         *)
(*                                                                         *)
(* The runtime is single threaded: every action below is one callback, or  *)
(* the part of an async handler between two awaits.                        *)
(***************************************************************************)
EXTENDS Integers, Sequences, FiniteSets, TLC

(* ------------------------------ bounds -------------------------------- *)
NumConns == 2
NumTables == 2
NumUsers == 2
MaxColumns == 1
MaxValues == 1
MaxReqs == 1
MaxSheetRows == 2
MaxSheetCols == 2
MaxCreated == 2

Conns == 1..NumConns
TableIds == 1..NumTables
Users == 1..NumUsers
ReqIds == 1..MaxReqs
\* One handler more in flight: requests that overlap
PairIds == 1..(MaxReqs + 1)

Urls == {"sheetA", "sheetB"}
BadUrl == "bad"
CellValues == {"done", "todo"}
RowIndices == {3}
SheetOutcomes == {"data", "errorTable"}
Undefined == "undefined"

VARIABLES
  readyState,          \* ws.readyState of every connection ("NONE": not yet accepted)
  isAlive,             \* ExtendedWebSocket.isAlive
  subscribedTables,    \* ExtendedWebSocket.subscribedTables
  tableSubscriptions,  \* Map<number, Set<ExtendedWebSocket>>, sets in insertion order
  tables,              \* rows of table "tables"
  customColumns,       \* rows of table "customColumns"
  columnValues,        \* rows of table "columnValues"
  nextColumnId,        \* serial of customColumns.id
  nextValueId,         \* serial of columnValues.id
  reqs,                \* the HTTP requests in flight, each at one of its awaits
  sent,                \* frames written to sockets by the last callback, in order
  calls,               \* broadcastTableUpdate calls made by the last callback
  resp,                \* HTTP responses written by the last callback
  wssState,            \* state of the WebSocketServer: RUNNING, CLOSING, CLOSED
  pingInterval,        \* the timer of the heartbeat: "set" or "cleared"
  fetchCall            \* a call of fetchGoogleSheetData: arguments and result

wsVars == <<readyState, isAlive, subscribedTables, tableSubscriptions>>
dbVars == <<tables, customColumns, columnValues, nextColumnId, nextValueId>>
outVars == <<sent, calls, resp>>
srvVars == <<wssState, pingInterval, fetchCall>>
vars == <<readyState, isAlive, subscribedTables, tableSubscriptions,
          tables, customColumns, columnValues, nextColumnId, nextValueId,
          reqs, sent, calls, resp, wssState, pingInterval, fetchCall>>

(* --------------------------- JS collections --------------------------- *)
\* The elements of an insertion-ordered Set
SeqToSet(s) == {s[i] : i \in 1..Len(s)}

\* An add that appends whether or not the element is present
SetAddAppends(s, e) == Append(s, e)

\* Set.prototype.add: an element already present keeps its place
SetAdd(s, e) == IF e \in SeqToSet(s) THEN s ELSE Append(s, e)

\* Set.prototype.delete
SetDelete(s, e) == SelectSeq(s, LAMBDA x : x # e)

\* Map.prototype.has
MapHas(m, k) == k \in DOMAIN m

\* Map.prototype.set
MapSet(m, k, v) == [x \in (DOMAIN m) \cup {k} |-> IF x = k THEN v ELSE m[x]]

\* Map.prototype.delete
MapDelete(m, k) == [x \in (DOMAIN m) \ {k} |-> m[x]]

\* { ...base, ...data }: the keys of data override those of base
Spread(base, data) ==
  [k \in (DOMAIN base) \cup (DOMAIN data) |->
     IF k \in DOMAIN data THEN data[k] ELSE base[k]]

(* ------------------------------ sockets ------------------------------- *)
\* wss.clients: the sockets accepted and not yet closed
Clients == {c \in Conns : readyState[c] \in {"OPEN", "CLOSING"}}

\* ws.send(): the frame is written only on an OPEN socket (ws 8 does not
\* throw on a CLOSING one when no callback is given)
WsSend(c, msg) ==
  IF readyState[c] = "OPEN" THEN <<[to |-> c, msg |-> msg]>> ELSE <<>>

NoOutput == sent' = <<>> /\ calls' = <<>> /\ resp' = <<>>

\* wss.on('connection'): emitted while the server accepts connections
Connection(c) ==
  /\ wssState = "RUNNING"
  /\ readyState[c] = "NONE"
  /\ readyState' = [readyState EXCEPT ![c] = "OPEN"]
  /\ isAlive' = [isAlive EXCEPT ![c] = TRUE]
  /\ subscribedTables' = [subscribedTables EXCEPT ![c] = {}]
  /\ NoOutput
  /\ UNCHANGED <<tableSubscriptions, dbVars, reqs, srvVars>>

\* extWs.on('pong')
Pong(c) ==
  /\ c \in Clients
  /\ isAlive' = [isAlive EXCEPT ![c] = TRUE]
  /\ NoOutput
  /\ UNCHANGED <<readyState, subscribedTables, tableSubscriptions, dbVars, reqs, srvVars>>

\* Removal that leaves the emptied set in the map
RemoveSubscriberNoPrune(m, tableId, c) ==
  IF MapHas(m, tableId) THEN MapSet(m, tableId, SetDelete(m[tableId], c)) ELSE m

\* Removal that drops the whole subscriber set of the table
RemoveSubscriberDropsSet(m, tableId, c) ==
  IF MapHas(m, tableId) /\ c \in SeqToSet(m[tableId]) THEN MapDelete(m, tableId) ELSE m

\* The two statements that take socket c out of the subscriber set of one
\* table: tableSubscriptions.get(tableId)?.delete(extWs), and the removal
\* of the key when the set has become empty
RemoveSubscriber(m, tableId, c) ==
  LET m1 == IF MapHas(m, tableId)
            THEN MapSet(m, tableId, SetDelete(m[tableId], c))
            ELSE m
  IN IF MapHas(m1, tableId) /\ Len(m1[tableId]) = 0
     THEN MapDelete(m1, tableId)
     ELSE m1

\* A handler that subscribes only to tables that exist
SubscribeKnownTables(c, tableId) ==
  /\ c \in Clients
  /\ IF \E t \in tables : t.id = tableId
     THEN /\ subscribedTables' = [subscribedTables EXCEPT ![c] = @ \cup {tableId}]
          /\ LET m1 == IF ~MapHas(tableSubscriptions, tableId)
                       THEN MapSet(tableSubscriptions, tableId, <<>>)
                       ELSE tableSubscriptions
             IN tableSubscriptions' = MapSet(m1, tableId, SetAdd(m1[tableId], c))
          /\ sent' = WsSend(c, [type |-> "subscribed", tableId |-> tableId,
                                message |-> "Successfully subscribed to real-time updates"])
     ELSE /\ sent' = <<>>
          /\ UNCHANGED <<subscribedTables, tableSubscriptions>>
  /\ calls' = <<>> /\ resp' = <<>>
  /\ UNCHANGED <<readyState, isAlive, dbVars, reqs, srvVars>>

\* A subscribe branch that sends no confirmation
SubscribeNoConfirmation(c, tableId) ==
  /\ c \in Clients
  /\ subscribedTables' = [subscribedTables EXCEPT ![c] = @ \cup {tableId}]
  /\ LET m1 == IF ~MapHas(tableSubscriptions, tableId)
               THEN MapSet(tableSubscriptions, tableId, <<>>)
               ELSE tableSubscriptions
     IN tableSubscriptions' = MapSet(m1, tableId, SetAdd(m1[tableId], c))
  /\ NoOutput
  /\ UNCHANGED <<readyState, isAlive, dbVars, reqs, srvVars>>

\* extWs.on('message'), data.type === 'subscribe'.  A message can still be
\* delivered on a CLOSING socket (frames buffered in the receiver when
\* terminate() was called); the confirmation is then not written.
Subscribe(c, tableId) ==
  /\ c \in Clients
  /\ subscribedTables' = [subscribedTables EXCEPT ![c] = @ \cup {tableId}]
  /\ LET m1 == IF ~MapHas(tableSubscriptions, tableId)
               THEN MapSet(tableSubscriptions, tableId, <<>>)
               ELSE tableSubscriptions
     IN tableSubscriptions' = MapSet(m1, tableId, SetAdd(m1[tableId], c))
  /\ sent' = WsSend(c, [type |-> "subscribed", tableId |-> tableId,
                        message |-> "Successfully subscribed to real-time updates"])
  /\ calls' = <<>> /\ resp' = <<>>
  /\ UNCHANGED <<readyState, isAlive, dbVars, reqs, srvVars>>

\* Unsubscribe that forgets the connection's own set
UnsubscribeRouterOnly(c, tableId) ==
  /\ c \in Clients
  /\ tableSubscriptions' = RemoveSubscriber(tableSubscriptions, tableId, c)
  /\ sent' = WsSend(c, [type |-> "unsubscribed", tableId |-> tableId])
  /\ calls' = <<>> /\ resp' = <<>>
  /\ UNCHANGED <<readyState, isAlive, subscribedTables, dbVars, reqs, srvVars>>

\* Unsubscribe that forgets the router
UnsubscribeOwnSetOnly(c, tableId) ==
  /\ c \in Clients
  /\ subscribedTables' = [subscribedTables EXCEPT ![c] = @ \ {tableId}]
  /\ sent' = WsSend(c, [type |-> "unsubscribed", tableId |-> tableId])
  /\ calls' = <<>> /\ resp' = <<>>
  /\ UNCHANGED <<readyState, isAlive, tableSubscriptions, dbVars, reqs, srvVars>>

\* Unsubscribe that confirms only what it removed
UnsubscribeOnlySubscribed(c, tableId) ==
  /\ c \in Clients
  /\ subscribedTables' = [subscribedTables EXCEPT ![c] = @ \ {tableId}]
  /\ tableSubscriptions' = RemoveSubscriber(tableSubscriptions, tableId, c)
  /\ sent' = IF tableId \in subscribedTables[c]
             THEN WsSend(c, [type |-> "unsubscribed", tableId |-> tableId])
             ELSE <<>>
  /\ calls' = <<>> /\ resp' = <<>>
  /\ UNCHANGED <<readyState, isAlive, dbVars, reqs, srvVars>>

\* extWs.on('message'), data.type === 'unsubscribe'
Unsubscribe(c, tableId) ==
  /\ c \in Clients
  /\ subscribedTables' = [subscribedTables EXCEPT ![c] = @ \ {tableId}]
  /\ tableSubscriptions' = RemoveSubscriber(tableSubscriptions, tableId, c)
  /\ sent' = WsSend(c, [type |-> "unsubscribed", tableId |-> tableId])
  /\ calls' = <<>> /\ resp' = <<>>
  /\ UNCHANGED <<readyState, isAlive, dbVars, reqs, srvVars>>

\* extWs.on('message') with a payload that is not JSON, has another type or
\* has a tableId that is not a number: neither branch is taken
IgnoredMessage(c) ==
  /\ c \in Clients
  /\ NoOutput
  /\ UNCHANGED <<wsVars, dbVars, reqs, srvVars>>

\* The numbers a client can put into tableId besides the ids of the tables:
\* an integer that is no table's id, and a number that is not an integer
\* (such as 1.5).  Numbers are modelled by integer codes; as a key of a Map
\* or a member of a Set the code Fractional is a number like any other.
NoTableId == NumTables + 1
Fractional == NumTables + 2
JsonNumbers == TableIds \cup {NoTableId, Fractional}

\* Number.isInteger
IsInteger(n) == n # Fractional

\* The payloads of a client message: text that is not JSON, or an object
\* with a type and a tableId that is a number, a string or missing
MessageTypes == {"subscribe", "unsubscribe", "ping"}

Payloads ==
  {[json |-> FALSE, type |-> "", typeofTableId |-> "undefined", tableId |-> 0]}
    \cup [json : {TRUE}, type : MessageTypes,
          typeofTableId : {"string", "undefined"}, tableId : {0}]
    \cup [json : {TRUE}, type : MessageTypes,
          typeofTableId : {"number"}, tableId : JsonNumbers]

\* extWs.on('message'): JSON.parse (an exception ends in the catch), then
\* the two branches on data.type and typeof data.tableId === 'number'
Message(c, data) ==
  IF ~data.json THEN IgnoredMessage(c)
  ELSE IF data.type = "subscribe" /\ data.typeofTableId = "number"
  THEN Subscribe(c, data.tableId)
  ELSE IF data.type = "unsubscribe" /\ data.typeofTableId = "number"
  THEN Unsubscribe(c, data.tableId)
  ELSE IgnoredMessage(c)

\* The user whose client opened connection c.  The server never learns it:
\* ExtendedWebSocket.userId is declared and never assigned.
UserOf(c) == ((c - 1) % NumUsers) + 1

\* The client closes the connection or the transport drops: the socket
\* leaves OPEN; its 'close' event is emitted later.
ClientClose(c) ==
  /\ readyState[c] = "OPEN"
  /\ readyState' = [readyState EXCEPT ![c] = "CLOSING"]
  /\ NoOutput
  /\ UNCHANGED <<isAlive, subscribedTables, tableSubscriptions, dbVars, reqs, srvVars>>

\* A cleanup that ends after the first table of the connection
CleanUpOneTable(m, ts, c) ==
  IF ts = {} THEN m
  ELSE RemoveSubscriber(m, CHOOSE t \in ts : \A u \in ts : t <= u, c)

\* Array.from(extWs.subscribedTables).forEach(...) of the 'close' handler
RECURSIVE CleanUp(_, _, _)
CleanUp(m, ts, c) ==
  IF ts = {} THEN m
  ELSE LET tableId == CHOOSE t \in ts : \A u \in ts : t <= u
       IN CleanUp(RemoveSubscriber(m, tableId, c), ts \ {tableId}, c)

\* extWs.on('close'): emitted once, when the socket has closed; ws then
\* drops the socket from wss.clients
Close(c) ==
  /\ readyState[c] = "CLOSING"
  /\ readyState' = [readyState EXCEPT ![c] = "CLOSED"]
  /\ tableSubscriptions' = CleanUp(tableSubscriptions, subscribedTables[c], c)
  /\ NoOutput
  /\ UNCHANGED <<isAlive, subscribedTables, dbVars, reqs, srvVars>>

\* The frame of extWs.ping()
PingFrame == [type |-> "ping"]

\* A round that only pings
SweepStateNoTerminate(c) == readyState[c]

\* A round that walks over every socket ever accepted, closed ones included
SweepStateStaleList(c) ==
  IF readyState[c] # "NONE" /\ isAlive[c] = FALSE THEN "CLOSING" ELSE readyState[c]

\* A round that terminates every client, alive or not
SweepStateNoGrace(c) ==
  IF c \in Clients THEN "CLOSING" ELSE readyState[c]

\* What one round of pingInterval does to client c: terminate() when
\* isAlive is false, otherwise clear the flag and ping
SweepState(c) ==
  IF c \in Clients /\ isAlive[c] = FALSE THEN "CLOSING" ELSE readyState[c]

SweepAlive(c) ==
  IF c \in Clients /\ isAlive[c] # FALSE THEN FALSE ELSE isAlive[c]

RECURSIVE SweepPings(_)
SweepPings(cs) ==
  IF cs = {} THEN <<>>
  ELSE LET c == CHOOSE x \in cs : \A y \in cs : x <= y
       IN (IF isAlive[c] # FALSE THEN WsSend(c, PingFrame) ELSE <<>>)
          \o SweepPings(cs \ {c})

\* The callback of setInterval(..., 15000): wss.clients.forEach
Sweep ==
  /\ pingInterval = "set"
  /\ Clients # {}
  /\ readyState' = [c \in Conns |-> SweepState(c)]
  /\ isAlive' = [c \in Conns |-> SweepAlive(c)]
  /\ sent' = SweepPings(Clients)
  /\ calls' = <<>> /\ resp' = <<>>
  /\ UNCHANGED <<subscribedTables, tableSubscriptions, dbVars, reqs, srvVars>>

\* The host calls wss.close(): the server accepts no connection any more;
\* ws emits the server's 'close' event when the last client has gone
WssClose ==
  /\ wssState = "RUNNING"
  /\ wssState' = "CLOSING"
  /\ NoOutput
  /\ UNCHANGED <<wsVars, dbVars, reqs, pingInterval, fetchCall>>

\* A 'close' handler that leaves the timer running
WssOnCloseKeepsInterval ==
  /\ wssState = "CLOSING"
  /\ Clients = {}
  /\ wssState' = "CLOSED"
  /\ NoOutput
  /\ UNCHANGED <<wsVars, dbVars, reqs, pingInterval, fetchCall>>

\* wss.on('close'): clearInterval(pingInterval)
WssOnClose ==
  /\ wssState = "CLOSING"
  /\ Clients = {}
  /\ wssState' = "CLOSED"
  /\ pingInterval' = "cleared"
  /\ NoOutput
  /\ UNCHANGED <<wsVars, dbVars, reqs, fetchCall>>

\* A broadcast to every open client, whatever it subscribed to
broadcastToClients(tableId, data) ==
  LET message == Spread([type |-> "tableUpdate", tableId |-> tableId], data)
      open == SelectSeq([i \in 1..NumConns |-> i],
                        LAMBDA client : readyState[client] = "OPEN")
  IN [i \in 1..Len(open) |-> [to |-> open[i], msg |-> message]]

\* A broadcast that falls back to every open client when the table has no
\* subscriber set
broadcastWithFallback(tableId, data) ==
  LET message == Spread([type |-> "tableUpdate", tableId |-> tableId], data)
      targets == IF MapHas(tableSubscriptions, tableId)
                 THEN tableSubscriptions[tableId]
                 ELSE [i \in 1..NumConns |-> i]
      open == SelectSeq(targets, LAMBDA client : readyState[client] = "OPEN")
  IN [i \in 1..Len(open) |-> [to |-> open[i], msg |-> message]]

\* A broadcast that ends at the first subscriber it cannot write to
broadcastUntilFailure(tableId, data) ==
  IF ~MapHas(tableSubscriptions, tableId) \/ Len(tableSubscriptions[tableId]) = 0
  THEN <<>>
  ELSE LET message == Spread([type |-> "tableUpdate", tableId |-> tableId], data)
           subscribers == tableSubscriptions[tableId]
           failed == {i \in 1..Len(subscribers) : readyState[subscribers[i]] # "OPEN"}
           last == IF failed = {} THEN Len(subscribers)
                   ELSE (CHOOSE i \in failed : \A j \in failed : i <= j) - 1
       IN [i \in 1..last |-> [to |-> subscribers[i], msg |-> message]]

\* broadcastTableUpdate(tableId, data): the frames it writes, in the order
\* of subscribers.forEach
broadcastTableUpdate(tableId, data) ==
  IF ~MapHas(tableSubscriptions, tableId) \/ Len(tableSubscriptions[tableId]) = 0
  THEN <<>>
  ELSE LET message == Spread([type |-> "tableUpdate", tableId |-> tableId], data)
           open == SelectSeq(tableSubscriptions[tableId],
                             LAMBDA client : readyState[client] = "OPEN")
       IN [i \in 1..Len(open) |-> [to |-> open[i], msg |-> message]]

\* A broadcast that takes the subscribers it skipped out of the table's set
subscriptionsPruned(tableId) ==
  IF ~MapHas(tableSubscriptions, tableId) THEN tableSubscriptions
  ELSE LET open == SelectSeq(tableSubscriptions[tableId],
                             LAMBDA client : readyState[client] = "OPEN")
       IN IF Len(open) = 0 THEN MapDelete(tableSubscriptions, tableId)
          ELSE MapSet(tableSubscriptions, tableId, open)

\* tableSubscriptions when broadcastTableUpdate(tableId, data) returns: the
\* function reads the map and the sets and has no statement that writes them
subscriptionsAfterBroadcast(tableId) == tableSubscriptions

(* ----------------------------- storage -------------------------------- *)
\* A lookup by id alone, whoever owns the table
getTableOfAnyUser(id, userId) == {t \in tables : t.id = id}

\* PostgresStorage.getUserTable: result[0], as a set of at most one row
getUserTable(id, userId) == {t \in tables : t.id = id /\ t.userId = userId}

\* PostgresStorage.getCustomColumns
getCustomColumns(tableId) == {col \in customColumns : col.tableId = tableId}

\* PostgresStorage.getUserCustomColumn: inner join with the owner's tables
getUserCustomColumn(id, userId) ==
  {col \in customColumns :
     col.id = id /\ \E t \in tables : t.id = col.tableId /\ t.userId = userId}

\* PostgresStorage.getColumnValue: the rows .limit(1) picks from
getColumnValue(columnId, rowIndex) ==
  {v \in columnValues : v.columnId = columnId /\ v.rowIndex = rowIndex}

\* db.select().from(columnValues).where(eq(columnValues.id, valueId))
selectColumnValue(valueId) == {v \in columnValues : v.id = valueId}

\* PostgresStorage.updateTable: the rows after UPDATE ... WHERE id; the
\* patch sets googleSheetUrl when it carries one (name and lastUpdatedAt
\* are not part of the modelled row)
updateTable(id, url) ==
  {IF t.id = id /\ url # ""
   THEN [t EXCEPT !.googleSheetUrl = url] ELSE t : t \in tables}

(* ------------------------ fetchGoogleSheetData ------------------------ *)
\* The cells of response.data.values: a text, or null
Null == "<null>"
SheetCells == {"a", Null}
SheetRow == UNION {[1..n -> SheetCells] : n \in 0..MaxSheetCols}
SheetValues == UNION {[1..n -> SheetRow] : n \in 0..MaxSheetRows}

\* process.env.GOOGLE_SHEETS_API_KEY || ""
ApiKeys == {"", "key"}

\* What sheets.spreadsheets.values.get does: it resolves with values or
\* without (response.data.values undefined), or it rejects with an error
\* that has a code, with one that has a response.status, or with a value
\* that has no properties at all
ApiOutcomes ==
  [kind : {"values"}, code : {0}, values : SheetValues]
    \cup [kind : {"undefined", "throwNull"}, code : {0}, values : {<<>>}]
    \cup [kind : {"errorCode", "errorStatus"}, code : {403, 404, 500}, values : {<<>>}]

\* return { headers, rows } and throw
Return(headers, rows) == [raised |-> FALSE, headers |-> headers, rows |-> rows]
Throw == [raised |-> TRUE, headers |-> <<>>, rows |-> <<>>]

\* cell === null || cell === undefined ? '' : cell.toString(), and
\* h?.toString() || ''
CellToString(cell) == IF cell = Null THEN "" ELSE cell

Max(a, b) == IF a >= b THEN a ELSE b

\* values.reduce((max, row) => Math.max(max, row.length), 0)
RECURSIVE MaxColumnsOf(_)
MaxColumnsOf(values) ==
  IF Len(values) = 0 THEN 0
  ELSE Max(Len(Head(values)), MaxColumnsOf(Tail(values)))

\* The headers: the first row, or Column 1, Column 2, ... when it is empty
SheetHeaders(values) ==
  LET headers == [i \in 1..Len(values[1]) |-> CellToString(values[1][i])]
  IN IF Len(headers) = 0
     THEN [i \in 1..MaxColumnsOf(values) |-> "Column " \o ToString(i)]
     ELSE headers

\* The data rows, padded to the headers; one empty row when there is none
SheetRows(values, headers) ==
  LET rows == [j \in 1..(Len(values) - 1) |->
                 [i \in 1..Max(Len(headers), Len(values[j + 1])) |->
                    IF i <= Len(values[j + 1])
                    THEN CellToString(values[j + 1][i]) ELSE ""]]
  IN IF Len(rows) = 0 /\ Len(headers) > 0
     THEN <<[i \in 1..Len(headers) |-> ""]>>
     ELSE rows

\* The body of the outer try: the checks of the URL and of the key, the
\* call, and the inner catch, which answers 404 and 403 with a table and
\* throws every other error again
fetchTry(sheetUrl, apiKey, api) ==
  IF sheetUrl = BadUrl THEN Throw
  ELSE IF apiKey = "" THEN Throw
  ELSE IF api.kind \in {"values", "undefined"}
  THEN LET values == IF api.kind = "undefined" THEN <<>> ELSE api.values
       IN IF Len(values) = 0 THEN Return(<<>>, <<>>)
          ELSE Return(SheetHeaders(values), SheetRows(values, SheetHeaders(values)))
  ELSE IF api.kind = "throwNull" THEN Throw
  ELSE IF api.code = 404
  THEN Return(<<"Data not found">>,
              <<<<"Please check your Google Sheet URL and permissions">>>>)
  ELSE IF api.code = 403
  THEN Return(<<"Access denied">>,
              <<<<"Google Sheet requires public access or sharing with service account">>>>)
  ELSE Throw

\* A function whose outer catch throws the error again
fetchRethrows(sheetUrl, apiKey, api) == fetchTry(sheetUrl, apiKey, api)

\* fetchGoogleSheetData: the outer catch turns every exception into the
\* table "Error"
fetchGoogleSheetData(sheetUrl, apiKey, api) ==
  LET result == fetchTry(sheetUrl, apiKey, api)
  IN IF result.raised
     THEN Return(<<"Error">>,
                 <<<<"Failed to load data. Please check the Google Sheet URL and try again.">>>>)
     ELSE result

\* No call of the function under observation
NoFetchCall ==
  [state |-> "none", sheetUrl |-> "", apiKey |-> "",
   api |-> [kind |-> "undefined", code |-> 0, values |-> <<>>],
   result |-> Return(<<>>, <<>>)]

\* The calls of the function: every URL, with and without key, and every
\* outcome of the Sheets API
FetchCalls ==
  [state : {"called"}, sheetUrl : Urls \cup {BadUrl}, apiKey : ApiKeys,
   api : ApiOutcomes, result : {Return(<<>>, <<>>)}]

\* await fetchGoogleSheetData(sheetUrl)
FetchSheet ==
  /\ fetchCall.state = "called"
  /\ fetchCall' = [fetchCall EXCEPT
                     !.state = "returned",
                     !.result = fetchGoogleSheetData(fetchCall.sheetUrl,
                                                     fetchCall.apiKey, fetchCall.api)]
  /\ NoOutput
  /\ UNCHANGED <<wsVars, dbVars, reqs, wssState, pingInterval>>

(* --------------------------- HTTP requests ---------------------------- *)
\* The locals of a handler that live across its awaits.  A value that may be
\* undefined (result[0]) is the set of at most one row.
IdleReq ==
  [kind |-> "idle", pc |-> "idle", userId |-> 0, tableId |-> 0, columnId |-> 0,
   valueId |-> 0, rowIndex |-> 0, value |-> "", url |-> "", refresh |-> FALSE,
   table |-> {}, rows |-> {}, sheetData |-> Undefined]

Idle(r) == reqs[r].kind = "idle"
At(r, kind, pc) == reqs[r].kind = kind /\ reqs[r].pc = pc

\* The handler goes on to its next await
Goto(r, q) == reqs' = [reqs EXCEPT ![r] = q] /\ NoOutput /\ UNCHANGED srvVars

\* res.status(status).json(...): the handler is done
Respond(r, status) ==
  /\ resp' = <<[kind |-> reqs[r].kind, status |-> status,
                userId |-> reqs[r].userId, tableId |-> reqs[r].tableId]>>
  /\ reqs' = [reqs EXCEPT ![r] = IdleReq]
  /\ UNCHANGED srvVars

\* res.status(status).json(body), with the body that is sent
RespondJson(r, status, body) ==
  /\ resp' = <<[kind |-> reqs[r].kind, status |-> status,
                userId |-> reqs[r].userId, tableId |-> reqs[r].tableId,
                body |-> body]>>
  /\ reqs' = [reqs EXCEPT ![r] = IdleReq]
  /\ UNCHANGED srvVars

\* A response without a broadcast
Reply(r, status) == Respond(r, status) /\ sent' = <<>> /\ calls' = <<>>

\* broadcastTableUpdate(tableId, data) as called by a handler
Broadcast(tableId, data) ==
  /\ sent' = broadcastTableUpdate(tableId, data)
  /\ calls' = <<[tableId |-> tableId, data |-> data]>>

\* const table = await storage.getUserTable(tableId, userId);
\* if (!table) return res.status(404)
AwaitUserTable(r, kind, nextPc) ==
  /\ At(r, kind, "getUserTable")
  /\ LET table == getUserTable(reqs[r].tableId, reqs[r].userId)
     IN IF table = {}
        THEN Reply(r, 404)
        ELSE Goto(r, [reqs[r] EXCEPT !.pc = nextPc, !.table = table])
  /\ UNCHANGED <<wsVars, dbVars>>

(* POST /api/tables/:id/columns *)
InFlight(kind) == Cardinality({r \in DOMAIN reqs : reqs[r].kind = kind})

AddColumnRequest(r, userId, tableId) ==
  /\ Idle(r)
  /\ nextColumnId + InFlight("addColumn") <= MaxColumns
  /\ Goto(r, [IdleReq EXCEPT !.kind = "addColumn", !.pc = "getUserTable",
                             !.userId = userId, !.tableId = tableId])
  /\ UNCHANGED <<wsVars, dbVars>>

AddColumnGetTable(r) == AwaitUserTable(r, "addColumn", "createCustomColumn")

\* storage.createCustomColumn: the insert fails on the foreign key when the
\* table row is gone, and the handler's catch answers 400
\* An insert into a table without the reference to tables
AddColumnCreateNoForeignKey(r) ==
  /\ At(r, "addColumn", "createCustomColumn")
  /\ LET newColumn == [id |-> nextColumnId, tableId |-> reqs[r].tableId]
     IN /\ customColumns' = customColumns \cup {newColumn}
        /\ nextColumnId' = nextColumnId + 1
        /\ Goto(r, [reqs[r] EXCEPT !.pc = "fetch", !.rows = {newColumn}])
  /\ UNCHANGED <<wsVars, tables, columnValues, nextValueId>>

AddColumnCreate(r) ==
  /\ At(r, "addColumn", "createCustomColumn")
  /\ IF \E t \in tables : t.id = reqs[r].tableId
     THEN LET newColumn == [id |-> nextColumnId, tableId |-> reqs[r].tableId]
          IN /\ customColumns' = customColumns \cup {newColumn}
             /\ nextColumnId' = nextColumnId + 1
             /\ Goto(r, [reqs[r] EXCEPT !.pc = "fetch", !.rows = {newColumn}])
     ELSE /\ Reply(r, 400)
          /\ UNCHANGED <<customColumns, nextColumnId>>
  /\ UNCHANGED <<wsVars, tables, columnValues, nextValueId>>

AddColumnBroadcast(r) ==
  /\ At(r, "addColumn", "fetch")
  /\ \E sheetData \in SheetOutcomes :
       Broadcast(reqs[r].tableId,
                 [type |-> "columnAdded",
                  column |-> CHOOSE newColumn \in reqs[r].rows : TRUE,
                  sheetData |-> sheetData])
  /\ Respond(r, 201)
  /\ tableSubscriptions' = subscriptionsAfterBroadcast(reqs[r].tableId)
  /\ UNCHANGED <<readyState, isAlive, subscribedTables, dbVars>>

(* GET /api/tables/:id/data *)
GetDataRequest(r, userId, tableId, refresh) ==
  /\ Idle(r)
  /\ Goto(r, [IdleReq EXCEPT !.kind = "getData", !.pc = "getUserTable",
                             !.userId = userId, !.tableId = tableId,
                             !.refresh = refresh])
  /\ UNCHANGED <<wsVars, dbVars>>

GetDataGetTable(r) == AwaitUserTable(r, "getData", "fetch")

\* const sheetData = await fetchGoogleSheetData(table.googleSheetUrl)
AwaitFetch(r, kind, nextPc) ==
  /\ At(r, kind, "fetch")
  /\ \E sheetData \in SheetOutcomes :
       Goto(r, [reqs[r] EXCEPT !.pc = nextPc, !.sheetData = sheetData])
  /\ UNCHANGED <<wsVars, dbVars>>

GetDataFetch(r) == AwaitFetch(r, "getData", "updateTable")

\* const updatedTable = await storage.updateTable(tableId, { lastUpdatedAt })
AwaitTouchTable(r, kind, nextPc) ==
  /\ At(r, kind, "updateTable")
  /\ tables' = updateTable(reqs[r].tableId, "")
  /\ Goto(r, [reqs[r] EXCEPT !.pc = nextPc,
                             !.table = {t \in tables' : t.id = reqs[r].tableId}])
  /\ UNCHANGED <<wsVars, customColumns, columnValues, nextColumnId, nextValueId>>

GetDataUpdateTable(r) == AwaitTouchTable(r, "getData", "getCustomColumns")

\* A handler that notifies the subscribers on every read
GetDataAlwaysBroadcasts(r) ==
  /\ At(r, "getData", "getCustomColumns")
  /\ Broadcast(reqs[r].tableId,
               [type |-> "dataRefreshed", message |-> "Data refreshed",
                sheetData |-> reqs[r].sheetData,
                customColumns |-> getCustomColumns(reqs[r].tableId),
                table |-> reqs[r].table])
  /\ tableSubscriptions' = subscriptionsAfterBroadcast(reqs[r].tableId)
  /\ Respond(r, 200)
  /\ UNCHANGED <<readyState, isAlive, subscribedTables, dbVars>>

\* const customColumns = await storage.getCustomColumns(tableId); the
\* broadcast when req.query.refresh === 'true'; res.json(...)
GetDataBroadcast(r) ==
  /\ At(r, "getData", "getCustomColumns")
  /\ IF reqs[r].refresh
     THEN /\ Broadcast(reqs[r].tableId,
                       [type |-> "dataRefreshed", message |-> "Data refreshed",
                        sheetData |-> reqs[r].sheetData,
                        customColumns |-> getCustomColumns(reqs[r].tableId),
                        table |-> reqs[r].table])
          /\ tableSubscriptions' = subscriptionsAfterBroadcast(reqs[r].tableId)
     ELSE sent' = <<>> /\ calls' = <<>> /\ UNCHANGED tableSubscriptions
  /\ Respond(r, 200)
  /\ UNCHANGED <<readyState, isAlive, subscribedTables, dbVars>>

(* POST /api/tables/:id/sync *)
SyncRequest(r, userId, tableId) ==
  /\ Idle(r)
  /\ Goto(r, [IdleReq EXCEPT !.kind = "sync", !.pc = "getUserTable",
                             !.userId = userId, !.tableId = tableId])
  /\ UNCHANGED <<wsVars, dbVars>>

SyncGetTable(r) == AwaitUserTable(r, "sync", "fetch")

SyncFetch(r) == AwaitFetch(r, "sync", "updateTable")

SyncUpdateTable(r) == AwaitTouchTable(r, "sync", "getCustomColumns")

SyncBroadcast(r) ==
  /\ At(r, "sync", "getCustomColumns")
  /\ Broadcast(reqs[r].tableId,
               [message |-> "Data synced", timestamp |-> "now",
                sheetData |-> reqs[r].sheetData,
                customColumns |-> getCustomColumns(reqs[r].tableId),
                table |-> reqs[r].table])
  /\ Respond(r, 200)
  /\ tableSubscriptions' = subscriptionsAfterBroadcast(reqs[r].tableId)
  /\ UNCHANGED <<readyState, isAlive, subscribedTables, dbVars>>

(* PATCH /api/tables/:id *)
\* url = "": the body carries a name only
PatchTableRequest(r, userId, tableId, url) ==
  /\ Idle(r)
  /\ Goto(r, [IdleReq EXCEPT !.kind = "patchTable", !.pc = "getUserTable",
                             !.userId = userId, !.tableId = tableId, !.url = url])
  /\ UNCHANGED <<wsVars, dbVars>>

\* After the ownership check the handler validates the URL and goes on to
\* the duplicate check, to the validating fetch or straight to the update
PatchTableGetTable(r) ==
  /\ At(r, "patchTable", "getUserTable")
  /\ LET table == getUserTable(reqs[r].tableId, reqs[r].userId)
     IN IF table = {} THEN Reply(r, 404)
        ELSE IF reqs[r].url = "" THEN Goto(r, [reqs[r] EXCEPT !.pc = "updateTable"])
        ELSE IF reqs[r].url = BadUrl THEN Reply(r, 400)
        ELSE IF \E t \in table : t.googleSheetUrl # reqs[r].url
             THEN Goto(r, [reqs[r] EXCEPT !.pc = "selectExisting"])
             ELSE Goto(r, [reqs[r] EXCEPT !.pc = "fetch"])
  /\ UNCHANGED <<wsVars, dbVars>>

PatchTableSelectExisting(r) ==
  /\ At(r, "patchTable", "selectExisting")
  /\ LET existingTables == {t \in tables : t.userId = reqs[r].userId
                                            /\ t.googleSheetUrl = reqs[r].url}
         otherTablesWithSameUrl == {t \in existingTables : t.id # reqs[r].tableId}
     IN IF otherTablesWithSameUrl # {}
        THEN Reply(r, 400)
        ELSE Goto(r, [reqs[r] EXCEPT !.pc = "fetch"])
  /\ UNCHANGED <<wsVars, dbVars>>

PatchTableFetch(r) == AwaitFetch(r, "patchTable", "updateTable")

\* const updatedTable = await storage.updateTable(tableId, updates):
\* result[0] of UPDATE ... RETURNING, undefined when no row has that id;
\* then broadcastTableUpdate and res.status(200).json(updatedTable)
PatchTableBroadcast(r) ==
  /\ At(r, "patchTable", "updateTable")
  /\ tables' = updateTable(reqs[r].tableId, reqs[r].url)
  /\ LET updatedTable == {t \in tables' : t.id = reqs[r].tableId}
     IN /\ Broadcast(reqs[r].tableId,
                     [type |-> "tableUpdated",
                      table |-> updatedTable,
                      message |-> "Table details updated"])
        /\ RespondJson(r, 200, updatedTable)
  /\ tableSubscriptions' = subscriptionsAfterBroadcast(reqs[r].tableId)
  /\ UNCHANGED <<readyState, isAlive, subscribedTables,
                 customColumns, columnValues, nextColumnId, nextValueId>>

(* POST /api/tables *)
\* The id the serial of tables gives next.  The requests name the tables
\* of TableIds only, so a created table is never deleted and the serial
\* has advanced once for each created table that is stored.
nextTableId == NumTables + 1 + Cardinality({t \in tables : t.id > NumTables})

\* The request, without columns in its body; at most MaxCreated tables are
\* created in all
CreateTableRequest(r, userId, url) ==
  /\ Idle(r)
  /\ nextTableId + InFlight("createTable") <= NumTables + MaxCreated
  /\ Goto(r, [IdleReq EXCEPT !.kind = "createTable", !.pc = "selectExisting",
                             !.userId = userId, !.url = url])
  /\ UNCHANGED <<wsVars, dbVars>>

\* const existingTables = await db.select()...; 400 when the user has a
\* table with this URL
CreateTableSelectExisting(r) ==
  /\ At(r, "createTable", "selectExisting")
  /\ LET existingTables == {t \in tables : t.userId = reqs[r].userId
                                            /\ t.googleSheetUrl = reqs[r].url}
     IN IF existingTables # {}
        THEN Reply(r, 400)
        ELSE Goto(r, [reqs[r] EXCEPT !.pc = "fetch"])
  /\ UNCHANGED <<wsVars, dbVars>>

\* await fetchGoogleSheetData(validatedData.googleSheetUrl)
CreateTableFetch(r) == AwaitFetch(r, "createTable", "createTable")

\* createTable: const existingTable = await db.select()...limit(1); the
\* throw ends in the catch of the handler, 400
CreateTableCheck(r) ==
  /\ At(r, "createTable", "createTable")
  /\ LET existingTable == {t \in tables : t.googleSheetUrl = reqs[r].url
                                           /\ t.userId = reqs[r].userId}
     IN IF existingTable # {}
        THEN Reply(r, 400)
        ELSE Goto(r, [reqs[r] EXCEPT !.pc = "insert"])
  /\ UNCHANGED <<wsVars, dbVars>>

\* createTable: db.insert(tables).values(...).returning(); then
\* res.status(201).json(newTable)
CreateTableInsert(r) ==
  /\ At(r, "createTable", "insert")
  /\ LET newTable == [id |-> nextTableId, userId |-> reqs[r].userId,
                      googleSheetUrl |-> reqs[r].url]
     IN /\ tables' = tables \cup {newTable}
        /\ RespondJson(r, 201, {newTable})
  /\ sent' = <<>> /\ calls' = <<>>
  /\ UNCHANGED <<wsVars, customColumns, columnValues, nextColumnId, nextValueId>>

(* DELETE /api/tables/:id *)
DeleteTableRequest(r, userId, tableId) ==
  /\ Idle(r)
  /\ Goto(r, [IdleReq EXCEPT !.kind = "deleteTable", !.pc = "getUserTable",
                             !.userId = userId, !.tableId = tableId])
  /\ UNCHANGED <<wsVars, dbVars>>

\* deleteUserTable: the ownership check
DeleteTableGetTable(r) == AwaitUserTable(r, "deleteTable", "getCustomColumns")

\* deleteTable: const columns = await this.getCustomColumns(id)
DeleteTableGetColumns(r) ==
  /\ At(r, "deleteTable", "getCustomColumns")
  /\ LET columns == getCustomColumns(reqs[r].tableId)
     IN Goto(r, [reqs[r] EXCEPT !.rows = columns,
                   !.pc = IF columns = {} THEN "deleteRow" ELSE "deleteValues"])
  /\ UNCHANGED <<wsVars, dbVars>>

\* deleteTable: one round of the loop over columns
DeleteTableValues(r) ==
  /\ At(r, "deleteTable", "deleteValues")
  /\ LET column == CHOOSE x \in reqs[r].rows : \A y \in reqs[r].rows : x.id <= y.id
         left == reqs[r].rows \ {column}
     IN /\ columnValues' = {v \in columnValues : v.columnId # column.id}
        /\ Goto(r, [reqs[r] EXCEPT !.rows = left,
                      !.pc = IF left = {} THEN "deleteColumns" ELSE "deleteValues"])
  /\ UNCHANGED <<wsVars, tables, customColumns, nextColumnId, nextValueId>>

\* deleteTable: delete the custom columns; the statement fails on the
\* foreign key of columnValues when a value still refers to one of them
DeleteTableColumns(r) ==
  /\ At(r, "deleteTable", "deleteColumns")
  /\ IF \E v \in columnValues : \E col \in getCustomColumns(reqs[r].tableId) :
          v.columnId = col.id
     THEN Reply(r, 500) /\ UNCHANGED customColumns
     ELSE /\ customColumns' = customColumns \ getCustomColumns(reqs[r].tableId)
          /\ Goto(r, [reqs[r] EXCEPT !.pc = "deleteRow"])
  /\ UNCHANGED <<wsVars, tables, columnValues, nextColumnId, nextValueId>>

\* A handler that drops the subscriber set before it broadcasts
DeleteTableDropFirst(r) ==
  /\ At(r, "deleteTable", "deleteRow")
  /\ IF getCustomColumns(reqs[r].tableId) # {}
     THEN Reply(r, 500) /\ UNCHANGED <<tables, tableSubscriptions>>
     ELSE IF ~\E t \in tables : t.id = reqs[r].tableId
     THEN Reply(r, 404) /\ UNCHANGED <<tables, tableSubscriptions>>
     ELSE /\ tables' = {t \in tables : t.id # reqs[r].tableId}
          /\ tableSubscriptions' = MapDelete(tableSubscriptions, reqs[r].tableId)
          /\ sent' = <<>>
          /\ calls' = <<[tableId |-> reqs[r].tableId,
                         data |-> [type |-> "tableDeleted",
                                   message |-> "Table was deleted"]]>>
          /\ Respond(r, 200)
  /\ UNCHANGED <<readyState, isAlive, subscribedTables,
                 customColumns, columnValues, nextColumnId, nextValueId>>

\* A handler that broadcasts and leaves the subscriber set in the map
DeleteTableKeepsSubscribers(r) ==
  /\ At(r, "deleteTable", "deleteRow")
  /\ IF getCustomColumns(reqs[r].tableId) # {}
     THEN Reply(r, 500) /\ UNCHANGED tables
     ELSE IF ~\E t \in tables : t.id = reqs[r].tableId
     THEN Reply(r, 404) /\ UNCHANGED tables
     ELSE /\ tables' = {t \in tables : t.id # reqs[r].tableId}
          /\ Broadcast(reqs[r].tableId,
                       [type |-> "tableDeleted", message |-> "Table was deleted"])
          /\ Respond(r, 200)
  /\ UNCHANGED <<wsVars, customColumns, columnValues, nextColumnId, nextValueId>>

\* deleteTable: delete the table row (it fails on the foreign key of
\* customColumns when a column still refers to it); then the handler
\* broadcasts and drops the table's subscriber set
DeleteTableBroadcast(r) ==
  /\ At(r, "deleteTable", "deleteRow")
  /\ IF getCustomColumns(reqs[r].tableId) # {}
     THEN Reply(r, 500) /\ UNCHANGED <<tables, tableSubscriptions>>
     ELSE IF ~\E t \in tables : t.id = reqs[r].tableId
     THEN Reply(r, 404) /\ UNCHANGED <<tables, tableSubscriptions>>
     ELSE /\ tables' = {t \in tables : t.id # reqs[r].tableId}
          /\ Broadcast(reqs[r].tableId,
                       [type |-> "tableDeleted", message |-> "Table was deleted"])
          /\ tableSubscriptions' =
               MapDelete(subscriptionsAfterBroadcast(reqs[r].tableId), reqs[r].tableId)
          /\ Respond(r, 200)
  /\ UNCHANGED <<readyState, isAlive, subscribedTables,
                 customColumns, columnValues, nextColumnId, nextValueId>>

(* POST /api/columns/values *)
\* The request, while the handlers in flight can insert at most maxRows
\* rows in all
SaveValueRequestWithin(maxRows, r, userId, columnId, rowIndex, value) ==
  /\ Idle(r)
  /\ \/ nextValueId + InFlight("saveValue") <= maxRows
     \/ getColumnValue(columnId, rowIndex) # {}
  /\ Goto(r, [IdleReq EXCEPT !.kind = "saveValue", !.pc = "getUserCustomColumn",
                             !.userId = userId, !.columnId = columnId,
                             !.rowIndex = rowIndex, !.value = value])
  /\ UNCHANGED <<wsVars, dbVars>>

SaveValueRequest(r, userId, columnId, rowIndex, value) ==
  SaveValueRequestWithin(MaxValues, r, userId, columnId, rowIndex, value)

SaveValueGetColumn(r) ==
  /\ At(r, "saveValue", "getUserCustomColumn")
  /\ LET column == getUserCustomColumn(reqs[r].columnId, reqs[r].userId)
     IN IF column = {} THEN Reply(r, 404)
        ELSE Goto(r, [reqs[r] EXCEPT !.pc = "getColumnValue",
                        !.tableId = (CHOOSE col \in column : TRUE).tableId])
  /\ UNCHANGED <<wsVars, dbVars>>

\* saveColumnValue: const existingValue = await this.getColumnValue(...)
SaveValueGetExisting(r) ==
  /\ At(r, "saveValue", "getColumnValue")
  /\ LET found == getColumnValue(reqs[r].columnId, reqs[r].rowIndex)
     IN IF found = {}
        THEN Goto(r, [reqs[r] EXCEPT !.pc = "writeValue", !.rows = {}])
        ELSE \E existingValue \in found :
               Goto(r, [reqs[r] EXCEPT !.pc = "writeValue", !.rows = {existingValue}])
  /\ UNCHANGED <<wsVars, dbVars>>

\* saveColumnValue: update the existing row by id, or insert a new one (the
\* insert fails on the foreign key when the column is gone: catch, 500)
SaveValueWriteWithin(maxRows, r) ==
  /\ At(r, "saveValue", "writeValue")
  /\ IF reqs[r].rows # {}
     THEN /\ columnValues' =
               {IF \E e \in reqs[r].rows : e.id = v.id
                THEN [v EXCEPT !.value = reqs[r].value] ELSE v : v \in columnValues}
          /\ UNCHANGED nextValueId
          /\ Goto(r, [reqs[r] EXCEPT !.pc = "getUserTable"])
     ELSE IF ~\E col \in customColumns : col.id = reqs[r].columnId
     THEN Reply(r, 500) /\ UNCHANGED <<columnValues, nextValueId>>
     ELSE /\ nextValueId <= maxRows
          /\ columnValues' = columnValues \cup
               {[id |-> nextValueId, columnId |-> reqs[r].columnId,
                 rowIndex |-> reqs[r].rowIndex, value |-> reqs[r].value]}
          /\ nextValueId' = nextValueId + 1
          /\ Goto(r, [reqs[r] EXCEPT !.pc = "getUserTable"])
  /\ UNCHANGED <<wsVars, tables, customColumns, nextColumnId>>

SaveValueWrite(r) == SaveValueWriteWithin(MaxValues, r)

\* const table = await storage.getUserTable(tableId, userId)
SaveValueGetTable(r) ==
  /\ At(r, "saveValue", "getUserTable")
  /\ Goto(r, [reqs[r] EXCEPT !.pc = "getCustomColumns",
                !.table = getUserTable(reqs[r].tableId, reqs[r].userId)])
  /\ UNCHANGED <<wsVars, dbVars>>

\* The message of POST /api/columns/values; sheetData stays undefined when
\* the table was not found
ColumnValueUpdated(q, customCols, sheetData) ==
  [type |-> "columnValueUpdated", columnId |-> q.columnId, rowIndex |-> q.rowIndex,
   value |-> q.value, customColumns |-> customCols, sheetData |-> sheetData]

\* const customColumns = await storage.getCustomColumns(tableId); without
\* a table there is no fetch and the broadcast follows at once
SaveValueGetColumns(r) ==
  /\ At(r, "saveValue", "getCustomColumns")
  /\ LET customCols == getCustomColumns(reqs[r].tableId)
     IN IF reqs[r].table # {}
        THEN /\ Goto(r, [reqs[r] EXCEPT !.pc = "fetch", !.rows = customCols])
             /\ UNCHANGED tableSubscriptions
        ELSE /\ Broadcast(reqs[r].tableId,
                          ColumnValueUpdated(reqs[r], customCols, Undefined))
             /\ tableSubscriptions' = subscriptionsAfterBroadcast(reqs[r].tableId)
             /\ Respond(r, 201)
  /\ UNCHANGED <<readyState, isAlive, subscribedTables, dbVars>>

\* A handler in which a subscriber that cannot be written to makes the
\* broadcast raise: the catch of the handler answers 500
SaveValueBroadcastRaises(r) ==
  /\ At(r, "saveValue", "fetch")
  /\ IF /\ MapHas(tableSubscriptions, reqs[r].tableId)
        /\ \E c \in SeqToSet(tableSubscriptions[reqs[r].tableId]) :
             readyState[c] # "OPEN"
     THEN /\ sent' = <<>>
          /\ calls' = <<[tableId |-> reqs[r].tableId,
                         data |-> ColumnValueUpdated(reqs[r], reqs[r].rows, Undefined)]>>
          /\ Respond(r, 500)
     ELSE /\ \E sheetData \in SheetOutcomes :
               Broadcast(reqs[r].tableId,
                         ColumnValueUpdated(reqs[r], reqs[r].rows, sheetData))
          /\ Respond(r, 201)
  /\ UNCHANGED <<wsVars, dbVars>>

\* A handler that gives up when the snapshot could not be fetched
SaveValueFetchAborts(r) ==
  /\ At(r, "saveValue", "fetch")
  /\ \E sheetData \in SheetOutcomes :
       IF sheetData = "errorTable"
       THEN Reply(r, 500) /\ UNCHANGED tableSubscriptions
       ELSE /\ Broadcast(reqs[r].tableId,
                         ColumnValueUpdated(reqs[r], reqs[r].rows, sheetData))
            /\ tableSubscriptions' = subscriptionsAfterBroadcast(reqs[r].tableId)
            /\ Respond(r, 201)
  /\ UNCHANGED <<readyState, isAlive, subscribedTables, dbVars>>

\* const sheetData = await fetchGoogleSheetData(...); broadcastTableUpdate;
\* res.status(201)
SaveValueBroadcast(r) ==
  /\ At(r, "saveValue", "fetch")
  /\ \E sheetData \in SheetOutcomes :
       Broadcast(reqs[r].tableId, ColumnValueUpdated(reqs[r], reqs[r].rows, sheetData))
  /\ Respond(r, 201)
  /\ tableSubscriptions' = subscriptionsAfterBroadcast(reqs[r].tableId)
  /\ UNCHANGED <<readyState, isAlive, subscribedTables, dbVars>>

(* PATCH /api/columns/values/:id *)
PatchValueRequest(r, userId, valueId, value) ==
  /\ Idle(r)
  /\ Goto(r, [IdleReq EXCEPT !.kind = "patchValue", !.pc = "selectValue",
                             !.userId = userId, !.valueId = valueId, !.value = value])
  /\ UNCHANGED <<wsVars, dbVars>>

\* const columnValue = await db.select()...where(eq(columnValues.id, valueId))
AwaitSelectValue(r, kind) ==
  /\ At(r, kind, "selectValue")
  /\ LET columnValue == selectColumnValue(reqs[r].valueId)
     IN IF columnValue = {} THEN Reply(r, 404)
        ELSE Goto(r, [reqs[r] EXCEPT !.pc = "getUserCustomColumn",
                        !.columnId = (CHOOSE v \in columnValue : TRUE).columnId])
  /\ UNCHANGED <<wsVars, dbVars>>

\* const column = await storage.getUserCustomColumn(columnId, userId);
\* if (!column) return res.status(403)
AwaitValueColumn(r, kind, nextPc) ==
  /\ At(r, kind, "getUserCustomColumn")
  /\ LET column == getUserCustomColumn(reqs[r].columnId, reqs[r].userId)
     IN IF column = {} THEN Reply(r, 403)
        ELSE Goto(r, [reqs[r] EXCEPT !.pc = nextPc,
                        !.tableId = (CHOOSE col \in column : TRUE).tableId])
  /\ UNCHANGED <<wsVars, dbVars>>

PatchValueSelect(r) == AwaitSelectValue(r, "patchValue")

PatchValueGetColumn(r) == AwaitValueColumn(r, "patchValue", "updateColumnValue")

\* storage.updateColumnValue, then res.json(updatedValue): no broadcast
PatchValueUpdate(r) ==
  /\ At(r, "patchValue", "updateColumnValue")
  /\ columnValues' = {IF v.id = reqs[r].valueId
                      THEN [v EXCEPT !.value = reqs[r].value] ELSE v : v \in columnValues}
  /\ IF selectColumnValue(reqs[r].valueId) = {} THEN Reply(r, 404) ELSE Reply(r, 200)
  /\ UNCHANGED <<wsVars, tables, customColumns, nextColumnId, nextValueId>>

(* DELETE /api/columns/values/:id *)
DeleteValueRequest(r, userId, valueId) ==
  /\ Idle(r)
  /\ Goto(r, [IdleReq EXCEPT !.kind = "deleteValue", !.pc = "selectValue",
                             !.userId = userId, !.valueId = valueId])
  /\ UNCHANGED <<wsVars, dbVars>>

DeleteValueSelect(r) == AwaitSelectValue(r, "deleteValue")

DeleteValueGetColumn(r) == AwaitValueColumn(r, "deleteValue", "deleteColumnValue")

\* storage.deleteColumnValue returns true whatever was deleted; res.json({
\* success: deleted }): no broadcast
DeleteValueDelete(r) ==
  /\ At(r, "deleteValue", "deleteColumnValue")
  /\ columnValues' = {v \in columnValues : v.id # reqs[r].valueId}
  /\ Reply(r, 200)
  /\ UNCHANGED <<wsVars, tables, customColumns, nextColumnId, nextValueId>>

(* --------------------------- specification ---------------------------- *)
Owner(tableId) == ((tableId - 1) % NumUsers) + 1

SheetOf(tableId) ==
  IF ((tableId - 1) \div NumUsers) % 2 = 0 THEN "sheetA" ELSE "sheetB"

\* The server has just started: no socket yet, no request in flight; the
\* database holds the tables the users created before
InitSlots(slots) ==
  /\ readyState = [c \in Conns |-> "NONE"]
  /\ isAlive = [c \in Conns |-> TRUE]
  /\ subscribedTables = [c \in Conns |-> {}]
  /\ tableSubscriptions = <<>>
  /\ tables = {[id |-> t, userId |-> Owner(t), googleSheetUrl |-> SheetOf(t)] :
                 t \in TableIds}
  /\ customColumns = {}
  /\ columnValues = {}
  /\ nextColumnId = 1
  /\ nextValueId = 1
  /\ reqs = [r \in slots |-> IdleReq]
  /\ sent = <<>>
  /\ calls = <<>>
  /\ resp = <<>>
  /\ wssState = "RUNNING"
  /\ pingInterval = "set"

\* One HTTP request at a time
InitServer == InitSlots(ReqIds)

\* The same server with room for requests that overlap
InitPair == InitSlots(PairIds) /\ fetchCall = NoFetchCall

Init == InitServer /\ fetchCall = NoFetchCall

\* The same server with one call of fetchGoogleSheetData to make
InitFetch == InitServer /\ fetchCall \in FetchCalls

\* Socket events without the heartbeat
NextChannel ==
  \/ \E c \in Conns : Connection(c)
  \/ \E c \in Conns, t \in TableIds : Subscribe(c, t)
  \/ \E c \in Conns, t \in TableIds : Unsubscribe(c, t)
  \/ \E c \in Conns : IgnoredMessage(c)
  \/ \E c \in Conns : ClientClose(c)
  \/ \E c \in Conns : Close(c)

\* The heartbeat
NextHeartbeat ==
  \/ \E c \in Conns : Pong(c)
  \/ Sweep

NextAddColumn ==
  \/ \E r \in ReqIds, u \in Users, t \in TableIds : AddColumnRequest(r, u, t)
  \/ \E r \in ReqIds : AddColumnGetTable(r)
  \/ \E r \in ReqIds : AddColumnCreate(r)
  \/ \E r \in ReqIds : AddColumnBroadcast(r)

NextGetData ==
  \/ \E r \in ReqIds, u \in Users, t \in TableIds, f \in BOOLEAN :
       GetDataRequest(r, u, t, f)
  \/ \E r \in ReqIds : GetDataGetTable(r)
  \/ \E r \in ReqIds : GetDataFetch(r)
  \/ \E r \in ReqIds : GetDataUpdateTable(r)
  \/ \E r \in ReqIds : GetDataBroadcast(r)

NextSync ==
  \/ \E r \in ReqIds, u \in Users, t \in TableIds : SyncRequest(r, u, t)
  \/ \E r \in ReqIds : SyncGetTable(r)
  \/ \E r \in ReqIds : SyncFetch(r)
  \/ \E r \in ReqIds : SyncUpdateTable(r)
  \/ \E r \in ReqIds : SyncBroadcast(r)

NextPatchTable ==
  \/ \E r \in ReqIds, u \in Users, t \in TableIds, url \in Urls \cup {BadUrl, ""} :
       PatchTableRequest(r, u, t, url)
  \/ \E r \in ReqIds : PatchTableGetTable(r)
  \/ \E r \in ReqIds : PatchTableSelectExisting(r)
  \/ \E r \in ReqIds : PatchTableFetch(r)
  \/ \E r \in ReqIds : PatchTableBroadcast(r)

NextDeleteTable ==
  \/ \E r \in ReqIds, u \in Users, t \in TableIds : DeleteTableRequest(r, u, t)
  \/ \E r \in ReqIds : DeleteTableGetTable(r)
  \/ \E r \in ReqIds : DeleteTableGetColumns(r)
  \/ \E r \in ReqIds : DeleteTableValues(r)
  \/ \E r \in ReqIds : DeleteTableColumns(r)
  \/ \E r \in ReqIds : DeleteTableBroadcast(r)

NextSaveValue ==
  \/ \E r \in ReqIds, u \in Users, col \in 1..MaxColumns, i \in RowIndices,
        v \in CellValues : SaveValueRequest(r, u, col, i, v)
  \/ \E r \in ReqIds : SaveValueGetColumn(r)
  \/ \E r \in ReqIds : SaveValueGetExisting(r)
  \/ \E r \in ReqIds : SaveValueWrite(r)
  \/ \E r \in ReqIds : SaveValueGetTable(r)
  \/ \E r \in ReqIds : SaveValueGetColumns(r)
  \/ \E r \in ReqIds : SaveValueBroadcast(r)

NextPatchValue ==
  \/ \E r \in ReqIds, u \in Users, id \in 1..MaxValues, v \in CellValues :
       PatchValueRequest(r, u, id, v)
  \/ \E r \in ReqIds : PatchValueSelect(r)
  \/ \E r \in ReqIds : PatchValueGetColumn(r)
  \/ \E r \in ReqIds : PatchValueUpdate(r)

NextDeleteValue ==
  \/ \E r \in ReqIds, u \in Users, id \in 1..MaxValues : DeleteValueRequest(r, u, id)
  \/ \E r \in ReqIds : DeleteValueSelect(r)
  \/ \E r \in ReqIds : DeleteValueGetColumn(r)
  \/ \E r \in ReqIds : DeleteValueDelete(r)

\* The steps of POST /api/tables for the handlers in the given slots
CreateTableSteps(slots) ==
  \/ \E r \in slots, u \in Users, url \in Urls : CreateTableRequest(r, u, url)
  \/ \E r \in slots : CreateTableSelectExisting(r)
  \/ \E r \in slots : CreateTableFetch(r)
  \/ \E r \in slots : CreateTableCheck(r)
  \/ \E r \in slots : CreateTableInsert(r)

NextCreateTable == CreateTableSteps(ReqIds)

\* Client messages with every payload
NextMessages == \E c \in Conns, data \in Payloads : Message(c, data)

\* The shutdown of the WebSocket server
NextServer == WssClose \/ WssOnClose

\* The whole server
Next ==
  \/ NextChannel \/ NextHeartbeat \/ NextMessages \/ NextServer
  \/ NextCreateTable
  \/ NextAddColumn \/ NextGetData \/ NextSync \/ NextPatchTable \/ NextDeleteTable
  \/ NextSaveValue \/ NextPatchValue \/ NextDeleteValue

Spec == Init /\ [][Next]_vars

\* The connection registry and the subscription router alone: the clients
\* issue no HTTP request
NextRouter == NextChannel \/ NextHeartbeat

SpecRouter == Init /\ [][NextRouter]_vars

\* The 'close' event of a socket that left OPEN is always emitted
FairRouter == SpecRouter /\ \A c \in Conns : WF_vars(Close(c))

\* The registry and the router with every payload a client can send
SpecMessages == Init /\ [][NextRouter \/ NextMessages]_vars

\* The registry, the router and the shutdown of the server
SpecServer == Init /\ [][NextRouter \/ NextServer]_vars

FairServer == SpecServer /\ \A c \in Conns : WF_vars(Close(c))

\* fetchGoogleSheetData on every input
SpecFetch == InitFetch /\ [][FetchSheet]_vars

\* The sockets and the requests on tables (columns, resync, deletion)
NextTables ==
  NextChannel \/ NextAddColumn \/ NextGetData \/ NextSync \/ NextDeleteTable

SpecTables == Init /\ [][NextTables]_vars

\* The sockets and the requests on column values
NextValues ==
  NextChannel \/ NextAddColumn \/ NextSaveValue \/ NextPatchValue \/ NextDeleteValue

SpecValues == Init /\ [][NextValues]_vars

\* Sockets that connect and subscribe, and every handler that persists a
\* change
NextMutations ==
  \/ \E c \in Conns : Connection(c)
  \/ \E c \in Conns, t \in TableIds : Subscribe(c, t)
  \/ NextAddColumn \/ NextSync \/ NextPatchTable \/ NextDeleteTable
  \/ NextSaveValue \/ NextPatchValue \/ NextDeleteValue

SpecMutations == Init /\ [][NextMutations]_vars

\* PATCH /api/tables/:id (a new name, or the URL of sheet B) and DELETE
\* /api/tables/:id of tables without custom columns, overlapping, with
\* sockets that connect and subscribe
NextUpdateDelete ==
  \/ \E c \in Conns : Connection(c)
  \/ \E c \in Conns, t \in TableIds : Subscribe(c, t)
  \/ \E r \in PairIds, u \in Users, t \in TableIds, url \in {"", "sheetB"} :
       PatchTableRequest(r, u, t, url)
  \/ \E r \in PairIds : PatchTableGetTable(r)
  \/ \E r \in PairIds : PatchTableSelectExisting(r)
  \/ \E r \in PairIds : PatchTableFetch(r)
  \/ \E r \in PairIds : PatchTableBroadcast(r)
  \/ \E r \in PairIds, u \in Users, t \in TableIds : DeleteTableRequest(r, u, t)
  \/ \E r \in PairIds : DeleteTableGetTable(r)
  \/ \E r \in PairIds : DeleteTableGetColumns(r)
  \/ \E r \in PairIds : DeleteTableBroadcast(r)

SpecUpdateDelete == InitPair /\ [][NextUpdateDelete]_vars

\* The steps of POST /api/tables/:id/columns, POST /api/columns/values and
\* DELETE /api/tables/:id for the handlers in the given slots
AddColumnSteps(slots) ==
  \/ \E r \in slots, u \in Users, t \in TableIds : AddColumnRequest(r, u, t)
  \/ \E r \in slots : AddColumnGetTable(r)
  \/ \E r \in slots : AddColumnCreate(r)
  \/ \E r \in slots : AddColumnBroadcast(r)

SaveValueSteps(slots) ==
  \/ \E r \in slots, u \in Users, col \in 1..MaxColumns, i \in RowIndices,
        v \in CellValues : SaveValueRequest(r, u, col, i, v)
  \/ \E r \in slots : SaveValueGetColumn(r)
  \/ \E r \in slots : SaveValueGetExisting(r)
  \/ \E r \in slots : SaveValueWrite(r)
  \/ \E r \in slots : SaveValueGetTable(r)
  \/ \E r \in slots : SaveValueGetColumns(r)
  \/ \E r \in slots : SaveValueBroadcast(r)

DeleteTableSteps(slots) ==
  \/ \E r \in slots, u \in Users, t \in TableIds : DeleteTableRequest(r, u, t)
  \/ \E r \in slots : DeleteTableGetTable(r)
  \/ \E r \in slots : DeleteTableGetColumns(r)
  \/ \E r \in slots : DeleteTableValues(r)
  \/ \E r \in slots : DeleteTableColumns(r)
  \/ \E r \in slots : DeleteTableBroadcast(r)

\* Column adds, value saves and table deletions that overlap
NextDeleteRace ==
  AddColumnSteps(PairIds) \/ SaveValueSteps(PairIds) \/ DeleteTableSteps(PairIds)

SpecDeleteRace == InitPair /\ [][NextDeleteRace]_vars

\* Value saves that overlap, with sockets that connect and subscribe
NextSaveRace ==
  \/ \E c \in Conns : Connection(c)
  \/ \E c \in Conns, t \in TableIds : Subscribe(c, t)
  \/ AddColumnSteps(PairIds) \/ SaveValueSteps(PairIds)

SpecSaveRace == InitPair /\ [][NextSaveRace]_vars

\* Column adds and table deletions that overlap, with sockets that connect
\* and subscribe
NextDeleteNotify ==
  \/ \E c \in Conns : Connection(c)
  \/ \E c \in Conns, t \in TableIds : Subscribe(c, t)
  \/ AddColumnSteps(PairIds) \/ DeleteTableSteps(PairIds)

SpecDeleteNotify == InitPair /\ [][NextDeleteNotify]_vars

\* Value saves that overlap while no row is stored yet: each of the two
\* handlers may insert a row
PairValues == MaxValues + 1

NextInsertRace ==
  \/ AddColumnSteps(PairIds)
  \/ \E r \in PairIds, u \in Users, col \in 1..MaxColumns, i \in RowIndices,
        v \in CellValues : SaveValueRequestWithin(PairValues, r, u, col, i, v)
  \/ \E r \in PairIds : SaveValueGetColumn(r)
  \/ \E r \in PairIds : SaveValueGetExisting(r)
  \/ \E r \in PairIds : SaveValueWriteWithin(PairValues, r)
  \/ \E r \in PairIds : SaveValueGetTable(r)
  \/ \E r \in PairIds : SaveValueGetColumns(r)
  \/ \E r \in PairIds : SaveValueBroadcast(r)

SpecInsertRace == InitPair /\ [][NextInsertRace]_vars

\* POST /api/tables and PATCH /api/tables/:id with a sheet URL, overlapping
NextCreateUpdate ==
  \/ CreateTableSteps(PairIds)
  \/ \E r \in PairIds, u \in Users, t \in TableIds, url \in Urls :
       PatchTableRequest(r, u, t, url)
  \/ \E r \in PairIds : PatchTableGetTable(r)
  \/ \E r \in PairIds : PatchTableSelectExisting(r)
  \/ \E r \in PairIds : PatchTableFetch(r)
  \/ \E r \in PairIds : PatchTableBroadcast(r)

SpecCreateUpdate == InitPair /\ [][NextCreateUpdate]_vars

(* ------------------------------ claims -------------------------------- *)
\* The subscribers of a table, as the router sees them
Subscribers(m, tableId) == IF MapHas(m, tableId) THEN SeqToSet(m[tableId]) ELSE {}

\* The open subscribers of a table
OpenSubscribers(tableId) ==
  {c \in Subscribers(tableSubscriptions, tableId) : readyState[c] = "OPEN"}

\* The sockets the last callback wrote a frame to
Recipients(frames) == {frames[i].to : i \in 1..Len(frames)}

\* C1: after any sequence of subscribe, unsubscribe and deregister (close,
\* termination by the sweep), every registered connection is in the
\* subscriber set of a table exactly when the table is in its own
\* subscribedTables.
C1_SubscriptionSymmetry ==
  \A c \in Clients, t \in TableIds :
    c \in Subscribers(tableSubscriptions, t) <=> t \in subscribedTables[c]

\* C1 witness: a connection was deregistered while subscribed, and another
\* registered connection holds a subscription and has dropped another one.
C1_Witness ==
  \E c, d \in Conns :
    /\ readyState[c] = "CLOSED" /\ subscribedTables[c] # {}
    /\ d \in Clients /\ subscribedTables[d] # {}
    /\ \E t \in TableIds :
         sent = <<[to |-> d, msg |-> [type |-> "unsubscribed", tableId |-> t]]>>

\* C2: the router and the connections' own sets never diverge, table
\* deletion included: when the DELETE handler drops the subscriber set of T,
\* no connection of that set keeps T in its subscribedTables.
C2_DeleteKeepsSymmetry ==
  [][\A c \in Conns :
       (/\ resp' # <<>>
        /\ resp'[1].kind = "deleteTable" /\ resp'[1].status = 200
        /\ c \in Subscribers(tableSubscriptions, resp'[1].tableId))
       => resp'[1].tableId \notin subscribedTables'[c]]_vars

\* C3: no key of tableSubscriptions maps to an empty set; the key of a table
\* goes with its last subscriber.
C3_Pruning ==
  \A t \in DOMAIN tableSubscriptions : Len(tableSubscriptions[t]) > 0

\* C3 witness: a connection was deregistered while subscribed to a table
\* that was never deleted, the table has no key any more, and another table
\* has one.
C3_Witness ==
  \E c \in Conns, t \in TableIds :
    /\ \E row \in tables : row.id = t
    /\ readyState[c] = "CLOSED" /\ t \in subscribedTables[c]
    /\ ~MapHas(tableSubscriptions, t)
    /\ DOMAIN tableSubscriptions # {}

\* C4: a call of broadcastTableUpdate(T, data) writes one frame to each
\* connection that is in tableSubscriptions[T] and OPEN when it is called,
\* and none to any other connection.
C4_FanOut ==
  [][calls' # <<>> =>
       LET T == calls'[1].tableId
       IN /\ Recipients(sent') = OpenSubscribers(T)
          /\ Len(sent') = Cardinality(OpenSubscribers(T))
          /\ \A i \in 1..Len(sent') : sent'[i].msg.tableId = T]_vars

\* C4 witness: a broadcast reached one connection while another open
\* connection, subscribed only to another table, got nothing.
C4_Witness ==
  /\ calls # <<>>
  /\ Len(sent) = 1
  /\ \E c \in Conns :
       /\ c # sent[1].to
       /\ readyState[c] = "OPEN"
       /\ subscribedTables[c] # {}
       /\ calls[1].tableId \notin subscribedTables[c]

\* C5: every frame of a broadcast has the outer tag type = "tableUpdate" and
\* the tableId of the target table.
C5_Envelope ==
  calls # <<>> =>
    \A i \in 1..Len(sent) :
      sent[i].msg.type = "tableUpdate" /\ sent[i].msg.tableId = calls[1].tableId

\* C6: a sweep terminates every registered connection whose isAlive is
\* false (marked by the sweep before, no pong since), and a connection that
\* left OPEN is in the end closed and in no subscriber set.
C6_SweepTermination ==
  /\ [][Sweep => \A c \in Clients :
                   isAlive[c] = FALSE => readyState'[c] = "CLOSING"]_vars
  /\ \A c \in Conns :
       (readyState[c] = "CLOSING") ~>
         (readyState[c] = "CLOSED"
            /\ \A t \in TableIds : c \notin Subscribers(tableSubscriptions, t))

\* C6 witness: a sweep has just pinged one connection and left another one,
\* not alive and subscribed, terminated.
C6_Witness ==
  \E c, d \in Conns :
    /\ sent = <<[to |-> d, msg |-> PingFrame]>>
    /\ c # d
    /\ readyState[c] = "CLOSING" /\ isAlive[c] = FALSE
    /\ subscribedTables[c] # {}

\* C7: a successful deletion of T broadcasts tableDeleted to the open
\* subscribers T has at that moment and then drops the key of T; the
\* subscriber sets of the other tables are unchanged.
C7_DeleteCleanup ==
  [][(resp' # <<>> /\ resp'[1].kind = "deleteTable" /\ resp'[1].status = 200) =>
       LET T == resp'[1].tableId
       IN /\ Len(calls') = 1
          /\ calls'[1].tableId = T
          /\ calls'[1].data.type = "tableDeleted"
          /\ Recipients(sent') = OpenSubscribers(T)
          /\ ~MapHas(tableSubscriptions', T)
          /\ \A u \in TableIds \ {T} :
               /\ MapHas(tableSubscriptions', u) <=> MapHas(tableSubscriptions, u)
               /\ MapHas(tableSubscriptions, u) =>
                    tableSubscriptions'[u] = tableSubscriptions[u]]_vars

\* C7 witness: a table was deleted, a subscriber got the message, and the
\* same connection is still in the subscriber set of another table.
C7_Witness ==
  /\ resp # <<>> /\ resp[1].kind = "deleteTable" /\ resp[1].status = 200
  /\ sent # <<>>
  /\ \E u \in DOMAIN tableSubscriptions : sent[1].to \in SeqToSet(tableSubscriptions[u])

\* C8: a broadcast to a table without subscriber set writes no frame, lets
\* the handler answer as usual and changes neither tableSubscriptions nor
\* any subscribedTables.
C8_BroadcastNoOp ==
  [][(calls' # <<>> /\ Subscribers(tableSubscriptions, calls'[1].tableId) = {}) =>
       /\ sent' = <<>>
       /\ resp' # <<>> /\ resp'[1].status \in {200, 201}
       /\ tableSubscriptions' = tableSubscriptions
       /\ subscribedTables' = subscribedTables]_vars

\* C8 witness: a broadcast to a table nobody subscribed to, while another
\* table has an open subscriber.
C8_Witness ==
  /\ calls # <<>>
  /\ ~MapHas(tableSubscriptions, calls[1].tableId)
  /\ \E u \in DOMAIN tableSubscriptions : OpenSubscribers(u) # {}

\* The handlers that persist a change to table-scoped data
MutatingKinds ==
  {"addColumn", "saveValue", "patchValue", "deleteValue", "patchTable",
   "deleteTable", "sync"}

\* C9: every handler that has persisted a change to table-scoped data and
\* answers with success has called broadcastTableUpdate for that table.
C9_MutationBroadcasts ==
  (resp # <<>> /\ resp[1].kind \in MutatingKinds /\ resp[1].status \in {200, 201}) =>
    (calls # <<>> /\ calls[1].tableId = resp[1].tableId)

\* The mutation tags
MutationTags ==
  {"columnAdded", "tableUpdated", "tableDeleted", "dataRefreshed", "columnValueUpdated"}

\* C10: every broadcast frame carries a tag of the fixed set, and the frame
\* of an explicit resync is tagged dataRefreshed and carries the snapshot,
\* the custom columns and the table record.
C10_MutationTag ==
  calls # <<>> =>
    \A i \in 1..Len(sent) :
      /\ sent[i].msg.type \in MutationTags
      /\ resp[1].kind \in {"sync", "getData"} =>
           /\ sent[i].msg.type = "dataRefreshed"
           /\ {"sheetData", "customColumns", "table"} \subseteq DOMAIN sent[i].msg

Malformed(data) ==
  \/ ~data.json
  \/ data.type \notin {"subscribe", "unsubscribe"}
  \/ data.typeofTableId # "number"
  \/ ~IsInteger(data.tableId)

\* C13: a malformed client message is ignored: it changes neither
\* tableSubscriptions nor any subscribedTables, produces no reply and leaves
\* the connection registered.
C13_MalformedIgnored ==
  [][\A c \in Conns, data \in Payloads :
       (Malformed(data) /\ Message(c, data)) =>
         /\ tableSubscriptions' = tableSubscriptions
         /\ subscribedTables' = subscribedTables
         /\ sent' = <<>>
         /\ readyState'[c] = readyState[c]]_vars

\* C14: a connection receives the frames of a broadcast only for tables
\* owned by the user the connection belongs to.
C14_DataIsolation ==
  calls # <<>> =>
    \A i \in 1..Len(sent) : Owner(sent[i].msg.tableId) = UserOf(sent[i].to)

\* C15: a subscribe message with an integer T, whether or not a table T
\* exists, puts T into the connection's subscribedTables and the connection
\* into tableSubscriptions[T], touches no other connection or table, and
\* passes one 'subscribed' confirmation naming T to the socket of the
\* sender alone (ws writes it when that socket is OPEN).
C15_SubscribeSucceeds ==
  [][\A c \in Conns, data \in Payloads :
       (/\ data.json /\ data.type = "subscribe"
        /\ data.typeofTableId = "number" /\ IsInteger(data.tableId)
        /\ Message(c, data)) =>
         LET T == data.tableId
         IN /\ T \in subscribedTables'[c]
            /\ c \in Subscribers(tableSubscriptions', T)
            /\ \A d \in Conns \ {c} : subscribedTables'[d] = subscribedTables[d]
            /\ \A u \in JsonNumbers \ {T} :
                 Subscribers(tableSubscriptions', u) = Subscribers(tableSubscriptions, u)
            /\ Len(sent') <= 1
            /\ \A i \in 1..Len(sent') :
                 /\ sent'[i].to = c
                 /\ sent'[i].msg.type = "subscribed"
                 /\ sent'[i].msg.tableId = T
            /\ readyState[c] = "OPEN" => Len(sent') = 1]_vars

\* C15 witness: a connection has just been confirmed a subscription to an
\* id no table has, next to a connection subscribed to a table.
C15_Witness ==
  \E c, d \in Conns :
    /\ c # d
    /\ Len(sent) = 1 /\ sent[1].to = c
    /\ sent[1].msg.type = "subscribed" /\ sent[1].msg.tableId = NoTableId
    /\ c \in Subscribers(tableSubscriptions, NoTableId)
    /\ readyState[d] = "OPEN"
    /\ subscribedTables[d] \cap TableIds # {}

\* C16: an unsubscribe message for a pair that is not subscribed changes
\* neither tableSubscriptions nor any subscribedTables (no entry is created),
\* and every unsubscribe message passes one 'unsubscribed' confirmation
\* naming T to the socket of the sender alone.
C16_UnsubscribeNoOp ==
  [][\A c \in Conns, data \in Payloads :
       (/\ data.json /\ data.type = "unsubscribe" /\ data.typeofTableId = "number"
        /\ Message(c, data)) =>
         LET T == data.tableId
         IN /\ (T \notin subscribedTables[c]
                  /\ c \notin Subscribers(tableSubscriptions, T)) =>
                 /\ tableSubscriptions' = tableSubscriptions
                 /\ subscribedTables' = subscribedTables
            /\ Len(sent') <= 1
            /\ \A i \in 1..Len(sent') :
                 /\ sent'[i].to = c
                 /\ sent'[i].msg.type = "unsubscribed"
                 /\ sent'[i].msg.tableId = T
            /\ readyState[c] = "OPEN" => Len(sent') = 1]_vars

\* C16 witness: a connection without any subscription has just been
\* confirmed an unsubscription from a table another connection is
\* subscribed to.
C16_Witness ==
  \E c, d \in Conns, T \in TableIds :
    /\ c # d
    /\ sent = <<[to |-> c, msg |-> [type |-> "unsubscribed", tableId |-> T]]>>
    /\ subscribedTables[c] = {}
    /\ MapHas(tableSubscriptions, T) /\ tableSubscriptions[T] = <<d>>

\* The inputs on which the fetch fails: a URL without sheet id, no API key,
\* or a call that is rejected
FetchFails(call) ==
  \/ call.sheetUrl = BadUrl
  \/ call.apiKey = ""
  \/ call.api.kind \in {"errorCode", "errorStatus", "throwNull"}

\* C17: fetchGoogleSheetData never raises: on every outcome of the external
\* call it returns headers and rows of texts, every row at least as long as
\* the headers, and a failure comes back as a table of one header and one
\* row that describes it.
C17_FetchNeverRaises ==
  fetchCall.state = "returned" =>
    LET result == fetchCall.result
    IN /\ ~result.raised
       /\ \A i \in 1..Len(result.headers) : result.headers[i] # Null
       /\ \A j \in 1..Len(result.rows) :
            /\ Len(result.rows[j]) >= Len(result.headers)
            /\ \A i \in 1..Len(result.rows[j]) : result.rows[j][i] # Null
       /\ FetchFails(fetchCall) =>
            /\ Len(result.headers) = 1
            /\ result.headers[1] \in {"Error", "Data not found", "Access denied"}
            /\ Len(result.rows) = 1 /\ Len(result.rows[1]) = 1

\* C17 witness: the API rejected the call with an error that is neither 403
\* nor 404, and the function returned the table "Error".
C17_Witness ==
  /\ fetchCall.state = "returned"
  /\ fetchCall.sheetUrl # BadUrl /\ fetchCall.apiKey # ""
  /\ fetchCall.api.kind = "errorCode" /\ fetchCall.api.code = 500
  /\ fetchCall.result.headers = <<"Error">>

\* The step in which the 'close' handler of c runs its cleanup
CleanupRuns(c) == readyState[c] # "CLOSED" /\ readyState'[c] = "CLOSED"

\* C18: the cleanup of a connection runs exactly once, however the
\* connection ends: a closed connection never comes back to a state in
\* which its 'close' handler can run, a sweep (also one that terminates a
\* connection a second time) runs no cleanup itself, and every connection
\* that left OPEN gets its cleanup.
C18_CleanupOnce ==
  /\ [][\A c \in Conns :
         /\ readyState[c] = "CLOSED" => readyState'[c] = "CLOSED"
         /\ CleanupRuns(c) => readyState[c] = "CLOSING"
         /\ Sweep => (~CleanupRuns(c) /\ tableSubscriptions' = tableSubscriptions)]_vars
  /\ \A c \in Conns : (readyState[c] = "CLOSING") ~> (readyState[c] = "CLOSED")

\* C18 witness: a subscribed connection that the sweep had marked is closed
\* and cleaned up, while another one, terminated by the sweep, still waits
\* for its 'close' event.
C18_Witness ==
  \E c, d \in Conns :
    /\ readyState[c] = "CLOSED" /\ isAlive[c] = FALSE
    /\ subscribedTables[c] # {}
    /\ \A t \in TableIds : c \notin Subscribers(tableSubscriptions, t)
    /\ readyState[d] = "CLOSING" /\ isAlive[d] = FALSE
    /\ \E t \in TableIds : d \in Subscribers(tableSubscriptions, t)

\* C19: the sweep terminates a connection only if its isAlive is false at
\* that moment; a connection whose isAlive is true is left as it is, marked
\* and pinged (the frame goes out on an OPEN socket).  isAlive is true on
\* registration and after a pong, and only a sweep clears it.
C19_TerminateAfterMissedProbe ==
  /\ [][Sweep => \A c \in Clients :
         /\ readyState'[c] # readyState[c] => isAlive[c] = FALSE
         /\ isAlive[c] = TRUE =>
              /\ readyState'[c] = readyState[c]
              /\ isAlive'[c] = FALSE
              /\ readyState[c] = "OPEN" =>
                   \E i \in 1..Len(sent') : sent'[i] = [to |-> c, msg |-> PingFrame]]_vars
  /\ [][\A c \in Conns :
         /\ (readyState[c] = "NONE" /\ readyState'[c] = "OPEN") => isAlive'[c] = TRUE
         /\ Pong(c) => isAlive'[c] = TRUE
         /\ (isAlive[c] = TRUE /\ isAlive'[c] = FALSE) => Sweep]_vars

\* C19 witness: a sweep has just pinged and marked a subscribed connection
\* and terminated nobody, after another connection was closed.
C19_Witness ==
  \E c, d \in Conns :
    /\ sent = <<[to |-> c, msg |-> PingFrame]>>
    /\ readyState[c] = "OPEN" /\ isAlive[c] = FALSE
    /\ subscribedTables[c] # {}
    /\ readyState[d] = "CLOSED"

\* C20: once the 'close' event of the WebSocket server has been handled the
\* timer of the sweep is cleared and stays so: no round runs, no probe is
\* sent and no connection is terminated.
C20_SweepStopped ==
  /\ [](wssState = "CLOSED" => pingInterval = "cleared")
  /\ [][pingInterval = "cleared" =>
         /\ pingInterval' = "cleared"
         /\ ~Sweep
         /\ readyState' = readyState
         /\ \A i \in 1..Len(sent') : sent'[i].msg # PingFrame]_vars

\* C20 witness: the server is closed, its timer cleared, after a sweep had
\* terminated a connection.
C20_Witness ==
  /\ wssState = "CLOSED" /\ pingInterval = "cleared"
  /\ \E c \in Conns :
       readyState[c] = "CLOSED" /\ isAlive[c] = FALSE /\ subscribedTables[c] # {}

\* C21: once the 'close' event of a connection has been handled the
\* connection is a member of no subscriber set of tableSubscriptions, and
\* from then on no broadcast writes a frame to it.
C21_DeregistrationRemoves ==
  \A c \in Conns :
    readyState[c] = "CLOSED" =>
      /\ \A t \in DOMAIN tableSubscriptions : c \notin SeqToSet(tableSubscriptions[t])
      /\ \A i \in 1..Len(sent) : sent[i].to # c

\* C21 witness: a connection that had joined every table is closed, and a
\* broadcast for one of its tables has just reached another subscriber.
C21_Witness ==
  \E c \in Conns :
    /\ readyState[c] = "CLOSED" /\ subscribedTables[c] = TableIds
    /\ calls # <<>> /\ calls[1].tableId \in subscribedTables[c]
    /\ sent # <<>>

\* C22: a broadcast skips the subscribers that are not OPEN, without error
\* and without removing them: the step that calls broadcastTableUpdate(T)
\* writes only to OPEN sockets, answers with success, and leaves every
\* subscribedTables and every subscriber set as they were (after a table
\* deletion the handler itself then drops the whole set of T).
C22_BroadcastKeepsSubscribers ==
  [][calls' # <<>> =>
       LET T == calls'[1].tableId
       IN /\ \A i \in 1..Len(sent') : readyState[sent'[i].to] = "OPEN"
          /\ resp' # <<>> /\ resp'[1].status \in {200, 201}
          /\ subscribedTables' = subscribedTables
          /\ readyState' = readyState
          /\ tableSubscriptions' =
               IF resp'[1].kind = "deleteTable"
               THEN MapDelete(tableSubscriptions, T) ELSE tableSubscriptions]_vars

\* C22 witness: a broadcast has reached one subscriber and skipped another
\* one, not OPEN, which is still in the subscriber set of the table.
C22_Witness ==
  /\ calls # <<>> /\ Len(sent) = 1
  /\ \E c \in Subscribers(tableSubscriptions, calls[1].tableId) :
       /\ readyState[c] = "CLOSING" /\ c # sent[1].to
       /\ calls[1].tableId \in subscribedTables[c]

\* The awaits at which a handler checks that the table, the column or the
\* value of the request exists and belongs to the user
OwnershipCheckPc(kind) ==
  IF kind \in {"addColumn", "sync", "patchTable", "deleteTable"} THEN {"getUserTable"}
  ELSE IF kind = "saveValue" THEN {"getUserCustomColumn"}
  ELSE IF kind \in {"patchValue", "deleteValue"}
       THEN {"selectValue", "getUserCustomColumn"}
  ELSE {}

\* The object the check of request q looks for is absent or belongs to a
\* table of another user
NotOwned(q) ==
  IF q.pc = "getUserTable"
  THEN ~\E t \in tables : t.id = q.tableId /\ t.userId = q.userId
  ELSE IF q.pc = "getUserCustomColumn"
  THEN ~\E col \in customColumns, t \in tables :
          col.id = q.columnId /\ t.id = col.tableId /\ t.userId = q.userId
  ELSE ~\E v \in columnValues : v.id = q.valueId

\* C23: a mutating request reaches its ownership / not-found check without
\* a write or a broadcast; when the check fails, the handler answers with a
\* failure (403 or 404; 404 for the deletion of a table) and is done, and
\* that step writes nothing to the database, calls no broadcast and leaves
\* tableSubscriptions (the entry of the table included) unchanged.
C23_FailedCheckAborts ==
  [][\A r \in ReqIds :
       /\ (/\ reqs'[r] # reqs[r]
           /\ reqs'[r].kind \in MutatingKinds
           /\ reqs'[r].pc \in OwnershipCheckPc(reqs'[r].kind))
          => /\ UNCHANGED dbVars
             /\ sent' = <<>> /\ calls' = <<>>
             /\ tableSubscriptions' = tableSubscriptions
       /\ (/\ reqs'[r] # reqs[r]
           /\ reqs[r].kind \in MutatingKinds
           /\ reqs[r].pc \in OwnershipCheckPc(reqs[r].kind)
           /\ NotOwned(reqs[r]))
          => /\ resp' # <<>>
             /\ resp'[1].status \in {403, 404}
             /\ reqs[r].kind = "deleteTable" => resp'[1].status = 404
             /\ reqs'[r] = IdleReq
             /\ UNCHANGED dbVars
             /\ sent' = <<>> /\ calls' = <<>>
             /\ tableSubscriptions' = tableSubscriptions]_vars

\* C23 witness: a user has just been refused the deletion of a table of
\* another user; the table, its column and its subscriber entry are there.
C23_Witness ==
  /\ resp # <<>> /\ resp[1].kind = "deleteTable" /\ resp[1].status = 404
  /\ \E t \in tables : t.id = resp[1].tableId /\ t.userId # resp[1].userId
  /\ \E col \in customColumns : col.tableId = resp[1].tableId
  /\ MapHas(tableSubscriptions, resp[1].tableId)

\* C24: whatever the fetch of the snapshot returns, the handler of a value
\* save goes on.  Its write has put the value into columnValues (an update
\* finds no row only when the row it had read was deleted meanwhile); the
\* step after the fetch leaves the stored values as they are, passes one
\* columnValueUpdated message with the columnId, the rowIndex and the new
\* value to the open subscribers of the table, and answers 201.
C24_SaveSurvivesFetch ==
  [][\A r \in ReqIds :
       LET q == reqs[r]
       IN /\ (At(r, "saveValue", "writeValue") /\ reqs'[r].pc = "getUserTable") =>
               \/ \E v \in columnValues' :
                    v.columnId = q.columnId /\ v.rowIndex = q.rowIndex
                      /\ v.value = q.value
               \/ /\ q.rows # {}
                  /\ \A e \in q.rows : ~\E v \in columnValues : v.id = e.id
          /\ (At(r, "saveValue", "fetch") /\ reqs'[r] # reqs[r]) =>
               /\ resp' # <<>> /\ resp'[1].kind = "saveValue" /\ resp'[1].status = 201
               /\ columnValues' = columnValues
               /\ Len(calls') = 1 /\ calls'[1].tableId = q.tableId
               /\ Recipients(sent') = OpenSubscribers(q.tableId)
               /\ \A i \in 1..Len(sent') :
                    /\ sent'[i].msg.type = "columnValueUpdated"
                    /\ sent'[i].msg.columnId = q.columnId
                    /\ sent'[i].msg.rowIndex = q.rowIndex
                    /\ sent'[i].msg.value = q.value]_vars

\* C24 witness: the fetch failed, and the save was answered with 201 after
\* its message, with the table of the error as snapshot, went to a
\* subscriber; the value is stored.
C24_Witness ==
  /\ resp # <<>> /\ resp[1].kind = "saveValue" /\ resp[1].status = 201
  /\ calls # <<>> /\ calls[1].data.sheetData = "errorTable"
  /\ sent # <<>>
  /\ \E v \in columnValues :
       /\ v.columnId = calls[1].data.columnId
       /\ v.rowIndex = calls[1].data.rowIndex
       /\ v.value = calls[1].data.value

\* C25: every tableUpdated broadcast carries the updated table record, and
\* every table update answered with 200 returns it, also when a deletion of
\* the same table runs between the ownership check and the write.
C25_UpdatedRecordCarried ==
  /\ (calls # <<>> /\ calls[1].data.type = "tableUpdated") =>
       \E t \in calls[1].data.table : t.id = calls[1].tableId
  /\ (resp # <<>> /\ resp[1].kind = "patchTable" /\ resp[1].status = 200) =>
       \E t \in resp[1].body : t.id = resp[1].tableId

\* C27: a read of the table data notifies the subscribers only on explicit
\* refresh.  The step in which the handler answers 200 makes, with refresh,
\* one call of broadcastTableUpdate for the table, tagged dataRefreshed and
\* carrying the record that the update of the timestamp returned, and each
\* open subscriber gets one frame; without refresh it makes no call and
\* writes no frame.  No other step of the handler broadcasts.
C27_RefreshBroadcast ==
  [][\A r \in DOMAIN reqs :
       (reqs[r].kind = "getData" /\ reqs'[r] # reqs[r]) =>
         LET q == reqs[r]
         IN IF resp' # <<>> /\ resp'[1].status = 200 /\ q.refresh
            THEN /\ q.pc = "getCustomColumns"
                 /\ Len(calls') = 1
                 /\ calls'[1].tableId = q.tableId
                 /\ calls'[1].data.type = "dataRefreshed"
                 /\ calls'[1].data.table = q.table
                 /\ Recipients(sent') = OpenSubscribers(q.tableId)
                 /\ Len(sent') = Cardinality(OpenSubscribers(q.tableId))
            ELSE calls' = <<>> /\ sent' = <<>>]_vars

\* C27 witness: a read with refresh was answered and its one message
\* reached a subscriber of the table.
C27_Witness ==
  /\ resp # <<>> /\ resp[1].kind = "getData" /\ resp[1].status = 200
  /\ Len(calls) = 1 /\ calls[1].data.type = "dataRefreshed"
  /\ Len(sent) = 1 /\ sent[1].msg.tableId = resp[1].tableId

\* C28: once the deletion of a table has succeeded, no custom column of the
\* table and no value of such a column is in storage: every custom column
\* belongs to a table that exists and every value to a column that exists,
\* and the step in which deleteTable(id) returns true leaves no column with
\* that tableId, also when a column add or a value save for the same table
\* overlaps with the deletion.
C28_DeleteRemovesData ==
  /\ [](\A col \in customColumns : \E t \in tables : t.id = col.tableId)
  /\ [](\A v \in columnValues : \E col \in customColumns : col.id = v.columnId)
  /\ [][(resp' # <<>> /\ resp'[1].kind = "deleteTable" /\ resp'[1].status = 200) =>
         /\ ~\E t \in tables' : t.id = resp'[1].tableId
         /\ ~\E col \in customColumns' : col.tableId = resp'[1].tableId]_vars

\* C28 witness: a table that had a column with a value has just been
\* deleted while a value save for it was in flight, past its ownership
\* check; nothing of the table is left.
C28_Witness ==
  /\ resp # <<>> /\ resp[1].kind = "deleteTable" /\ resp[1].status = 200
  /\ nextColumnId > 1 /\ nextValueId > 1
  /\ customColumns = {} /\ columnValues = {}
  /\ \E r \in DOMAIN reqs :
       /\ reqs[r].kind = "saveValue" /\ reqs[r].tableId = resp[1].tableId
       /\ reqs[r].pc \in {"getColumnValue", "writeValue", "getUserTable"}

\* C29: broadcasts follow the order of the writes, so the last value a
\* subscriber is sent for a cell is the value finally stored: when a save
\* broadcasts and no other handler is in flight any more, the value in
\* every frame is the value columnValues holds for that cell.
C29_BroadcastFollowsWrites ==
  [][(/\ calls' # <<>>
      /\ calls'[1].data.type = "columnValueUpdated"
      /\ \A r \in DOMAIN reqs : reqs'[r] = IdleReq)
     => \A i \in 1..Len(sent') :
          \A v \in columnValues' :
            (v.columnId = sent'[i].msg.columnId /\ v.rowIndex = sent'[i].msg.rowIndex)
              => v.value = sent'[i].msg.value]_vars

\* C30: a connection is sent a tableUpdate for T only while it is
\* subscribed to T: every frame of a broadcast for T goes to a connection
\* with T in its subscribedTables; a member of a subscriber set always has
\* the table in its own set, and an unsubscribe for T takes the connection
\* out of the set of T, so that no broadcast reaches it until it subscribes
\* again.
C30_SentOnlyWhileSubscribed ==
  /\ [][calls' # <<>> =>
         \A i \in 1..Len(sent') : calls'[1].tableId \in subscribedTables[sent'[i].to]]_vars
  /\ [](\A t \in DOMAIN tableSubscriptions :
          \A c \in SeqToSet(tableSubscriptions[t]) : t \in subscribedTables[c])
  /\ [][\A c \in Conns, t \in TableIds :
         (t \in subscribedTables[c] /\ t \notin subscribedTables'[c]) =>
           c \notin Subscribers(tableSubscriptions', t)]_vars

\* C30 witness: a broadcast for a table went to its two subscribers in the
\* order in which they joined, the second of them subscribed to nothing
\* else.
C30_Witness ==
  /\ calls # <<>> /\ Len(sent) = 2
  /\ sent[1].to # sent[2].to
  /\ subscribedTables[sent[1].to] = TableIds
  /\ subscribedTables[sent[2].to] = {calls[1].tableId}

\* C31: tableDeleted is final for the subscribers of that moment.  The step
\* that broadcasts tableDeleted for T leaves no subscriber set for T; every
\* frame of a later broadcast for T, also one of a handler that was in
\* flight at the deletion, goes to a member of the set T has then; and a
\* connection becomes a member of a set only by its own subscribe.
C31_TableDeletedFinal ==
  /\ [][(calls' # <<>> /\ calls'[1].data.type = "tableDeleted") =>
         \A c \in Conns : c \notin Subscribers(tableSubscriptions', calls'[1].tableId)]_vars
  /\ [][calls' # <<>> =>
         \A i \in 1..Len(sent') :
           sent'[i].to \in Subscribers(tableSubscriptions, calls'[1].tableId)]_vars
  /\ [][\A c \in Conns, t \in TableIds :
         (c \notin Subscribers(tableSubscriptions, t)
            /\ c \in Subscribers(tableSubscriptions', t)) => Subscribe(c, t)]_vars

\* C31 witness: a column add that was in flight when its table was deleted
\* has just broadcast; the open connection that was subscribed to the table
\* at the deletion got nothing.
C31_Witness ==
  /\ calls # <<>> /\ calls[1].data.type = "columnAdded"
  /\ ~\E t \in tables : t.id = calls[1].tableId
  /\ sent = <<>>
  /\ \E c \in Conns : readyState[c] = "OPEN" /\ calls[1].tableId \in subscribedTables[c]

\* The frame that confirms a subscription
SubscribedFrame(c, tableId) ==
  [to |-> c,
   msg |-> [type |-> "subscribed", tableId |-> tableId,
            message |-> "Successfully subscribed to real-time updates"]]

\* C32: the confirmation comes before any update under the subscription.
\* The step that puts a connection into the subscriber set of T is a
\* callback of that connection, which is accepted and not closed; it calls
\* no broadcast and writes one frame, the confirmation for T, when the
\* socket is open and none otherwise; and every frame of a broadcast for T
\* goes to an open socket that was in the set of T before the step.
C32_ConfirmationFirst ==
  /\ [][\A c \in Conns, t \in TableIds :
         (c \notin Subscribers(tableSubscriptions, t)
            /\ c \in Subscribers(tableSubscriptions', t)) =>
           /\ readyState[c] \in {"OPEN", "CLOSING"}
           /\ readyState'[c] = readyState[c]
           /\ calls' = <<>>
           /\ sent' = IF readyState[c] = "OPEN"
                      THEN <<SubscribedFrame(c, t)>> ELSE <<>>]_vars
  /\ [][calls' # <<>> =>
         \A i \in 1..Len(sent') :
           /\ sent'[i].to \in Subscribers(tableSubscriptions, calls'[1].tableId)
           /\ readyState[sent'[i].to] = "OPEN"]_vars
  /\ [][\A c \in Conns : readyState'[c] = "OPEN" => readyState[c] \in {"NONE", "OPEN"}]_vars

\* C32 witness: a connection has just been confirmed as a subscriber of a
\* table while a column add for that table is about to broadcast.
C32_Witness ==
  \E c \in Conns, t \in TableIds, r \in ReqIds :
    /\ sent = <<SubscribedFrame(c, t)>>
    /\ c \in Subscribers(tableSubscriptions, t)
    /\ At(r, "addColumn", "fetch") /\ reqs[r].tableId = t

\* C33: at most one stored value per cell: after any interleaving of the
\* save handlers, two rows of columnValues with the same columnId and the
\* same rowIndex are the same row.
C33_OneValuePerCell ==
  \A v \in columnValues, w \in columnValues :
    (v.columnId = w.columnId /\ v.rowIndex = w.rowIndex) => v = w

\* C34: no user has two tables connected to the same sheet URL: after any
\* interleaving of the create and update handlers, two rows of tables with
\* the same userId and the same googleSheetUrl are the same row.
C34_OneTablePerUrl ==
  \A t \in tables, u \in tables :
    (t.userId = u.userId /\ t.googleSheetUrl = u.googleSheetUrl) => t = u

\* The subscriber set of a table in insertion order, empty without a key
SubscriberSeq(m, tableId) == IF MapHas(m, tableId) THEN m[tableId] ELSE <<>>

\* A step that leaves alone everything but the membership of connection c
\* in the sets of the given tables
OnlyMembershipOf(c, concerned) ==
  /\ \A d \in Conns \ {c} : subscribedTables'[d] = subscribedTables[d]
  /\ \A t \in JsonNumbers :
       /\ SetDelete(SubscriberSeq(tableSubscriptions', t), c)
            = SetDelete(SubscriberSeq(tableSubscriptions, t), c)
       /\ t \notin concerned =>
            /\ MapHas(tableSubscriptions', t) <=> MapHas(tableSubscriptions, t)
            /\ SubscriberSeq(tableSubscriptions', t) = SubscriberSeq(tableSubscriptions, t)

\* C35: subscribe, unsubscribe and close change only the membership of the
\* connection they come from.  A subscribe or unsubscribe of C for T leaves
\* the subscribedTables of every other connection, the other members of
\* the set of T and their order, and the set of every other table as they
\* were, and changes C's own subscribedTables at most in T; the close of C
\* does the same for the tables C had subscribed to and leaves every
\* subscribedTables as it was.
C35_OnlyOwnMembership ==
  /\ [][\A c \in Conns, t \in JsonNumbers :
         (Subscribe(c, t) \/ Unsubscribe(c, t)) =>
           /\ OnlyMembershipOf(c, {t})
           /\ subscribedTables'[c] \ {t} = subscribedTables[c] \ {t}]_vars
  /\ [][\A c \in Conns :
         Close(c) => /\ OnlyMembershipOf(c, subscribedTables[c])
                     /\ subscribedTables' = subscribedTables]_vars

\* C35 witness: a connection that shared two tables with another one has
\* closed, and the other one is still a subscriber of both.
C35_Witness ==
  \E c \in Conns, d \in Conns :
    /\ c # d
    /\ readyState[c] = "CLOSED"
    /\ subscribedTables[c] = TableIds /\ subscribedTables[d] = TableIds
    /\ \A t \in TableIds : Subscribers(tableSubscriptions, t) = {d}

\* C36: subscribing is idempotent on state.  A subscribe of C for T while T
\* is in C's subscribedTables and C is in the set of T leaves
\* tableSubscriptions and every subscribedTables as they were, and is
\* confirmed like the first one; no connection is twice in a subscriber
\* set, and a broadcast writes at most one frame to a connection.
C36_SubscribeIdempotent ==
  /\ [][\A c \in Conns, t \in TableIds :
         (Subscribe(c, t) /\ t \in subscribedTables[c]
            /\ c \in Subscribers(tableSubscriptions, t)) =>
           /\ tableSubscriptions' = tableSubscriptions
           /\ subscribedTables' = subscribedTables
           /\ sent' = IF readyState[c] = "OPEN"
                      THEN <<SubscribedFrame(c, t)>> ELSE <<>>]_vars
  /\ [](\A t \in DOMAIN tableSubscriptions :
         Len(tableSubscriptions[t]) = Cardinality(SeqToSet(tableSubscriptions[t])))
  /\ [][calls' # <<>> =>
         \A i \in 1..Len(sent'), j \in 1..Len(sent') :
           sent'[i].to = sent'[j].to => i = j]_vars

\* C36 witness: a connection that was in the set of a table before the
\* other one joined has just been confirmed again.
C36_Witness ==
  \E c \in Conns, d \in Conns, t \in TableIds :
    /\ c # d
    /\ MapHas(tableSubscriptions, t) /\ tableSubscriptions[t] = <<c, d>>
    /\ sent = <<SubscribedFrame(c, t)>>

\* C37: round trip.  When C is not subscribed to T (T is not in C's
\* subscribedTables and C is not in the set of T), the state a subscribe of
\* C for T leads to is one from which the unsubscribe of C for T leads back:
\* removing C from the set of T gives the tableSubscriptions from before
\* the subscribe, without a key for T when there was none, and removing T
\* gives C's subscribedTables from before; the unsubscribe is that removal.
C37_RoundTrip ==
  /\ [][\A c \in Conns, t \in TableIds :
         (Subscribe(c, t) /\ t \notin subscribedTables[c]
            /\ c \notin Subscribers(tableSubscriptions, t)) =>
           /\ RemoveSubscriber(tableSubscriptions', t, c) = tableSubscriptions
           /\ [subscribedTables' EXCEPT ![c] = @ \ {t}] = subscribedTables
           /\ c \in Clients']_vars
  /\ [][\A c \in Conns, t \in TableIds :
         Unsubscribe(c, t) =>
           /\ tableSubscriptions' = RemoveSubscriber(tableSubscriptions, t, c)
           /\ subscribedTables' = [subscribedTables EXCEPT ![c] = @ \ {t}]]_vars

\* C37 witness: a connection has just unsubscribed from a table of which
\* it was the only subscriber: the table has no key, and the connection is
\* still in the set of the other table, behind the other connection.
C37_Witness ==
  \E c \in Conns, d \in Conns, t \in TableIds, u \in TableIds :
    /\ c # d /\ t # u
    /\ sent = <<[to |-> c, msg |-> [type |-> "unsubscribed", tableId |-> t]]>>
    /\ ~MapHas(tableSubscriptions, t)
    /\ subscribedTables[c] = {u}
    /\ MapHas(tableSubscriptions, u) /\ tableSubscriptions[u] = <<d, c>>

=============================================================================
